---- MODULE Spec2Model ----
(***************************************************************************)
(* Password manager (Tauri + Solid front-end, Rust vault back-end).        *)
(*                                                                         *)
(* The front-end components are modelled from their sources; the vault     *)
(* commands they invoke (save_record, delete_content, login, ...) live in  *)
(* the Rust back-end and are modelled from the specification.              *)
(*                                                                         *)
(* The module holds one specification per component:                       *)
(*   SpecEditor  RecordDetail: the content list editor                     *)
(*   SpecSave    RecordDetail: saving the record and reading it back       *)
(*   SpecAuth    App, Register, Login: the top-level mode                  *)
(*   SpecMain    Main: record selection and the cloud upload resource      *)
(*   SpecValue   ContentValue: the value resource of a sensitive content   *)
(*   SpecCloud   CloudForm: the cloud configuration form of the settings   *)
(*   SpecChange  PasswordChangeForm: changing the master password          *)
(*   SpecRecords Main: the record list and its context menu              *)
(*   SpecDeletes the editor and the record list, either one open          *)
(*   SpecStartOver App, Register, Login with the start-over dialog         *)
(*   SpecRecordsFair SpecRecords with every pending call answered           *)
(*   SpecCheck   ContentValue of a Password: the breach check              *)
(*   SpecTotp    ContentValue of a TOTPSecret: the polled code             *)
(*   SpecGenerate ContentValue of a Password: the password generator       *)
(*   SpecField   ContentValue in the record form: typing, validate, submit *)
(*   SpecIndicator PasswordStrengthIndicator: colour and label            *)
(*   SpecRegister SpecAuth recording each submission of the register form *)
(*   SpecSecurity Main: the security-check indicator                      *)
(*   SpecVariant RecordDetail, earlier variant: the content list editor   *)
(*   SpecListeners RecordDetail, ContentValue: event listeners            *)
(*   SpecResubmit SpecSave with a submission made while a save is pending *)
(***************************************************************************)
EXTENDS Integers, Sequences, FiniteSets, TLC

\* ------------------------------------------------------------------------
\* Bounds of the model
\* ------------------------------------------------------------------------
\* Most items in the editor list, and most delete_content calls awaiting the store.
MaxContent == 2
MaxCalls == 1
\* Most items in the list of the earlier RecordDetail variant.
MaxVariant == 3

\* The editor shows "Add new content" while the list has fewer items.
ContentLimit == 50

\* Two of the eleven content kinds the add_content menu offers.
Kinds ==
    {"Text", "Password"}

VARIABLES
    allContent,     \* RecordDetail: the allContent resource (list of Content)
    edit,           \* editSignal
    dialogs,        \* delete handlers waiting in the confirm dialog (at most one)
    deleteCalls,    \* delete handlers waiting for invoke("delete_content")
    dbContent,      \* store: the content rows of the record
    loaded,         \* the content listing as it was loaded into the editor
    record,         \* RecordDetail: the Record object record() yields
    dbRecords,      \* store: the record rows
    saveCalls,      \* onSubmit handlers waiting for invoke("save_record") or the dialog
    saveMessage,    \* the error dialog onSubmit opened ("" when none is open)
    lastSave,       \* the store's last successful save_record, and whether it was read back
    assignedId,     \* the id the last settled save_record returned (initially the record's)
    dbFile,         \* back-end: "none", or the master password of the database file
    session,        \* back-end: a session (derived key) is active
    window,         \* App: the window resource ("loading" while it is pending)
    loginPassword,  \* Login: password signal
    loginLoading,   \* Login: loading signal
    loginError,     \* Login: error signal
    loginCalls,     \* Login: invoke("login") calls not yet settled
    regInput,       \* Register: input signal
    regConfirmInput,    \* Register: confirmInput signal
    regPassword,    \* Register: password signal (source of the result resource)
    regConfirmPassword, \* Register: confirmPassword signal
    regError,       \* Register: error signal
    registerCalls,  \* Register: invoke("register") calls not yet settled
    startOver,      \* start_over button: "idle", "confirm" or "sent"
    lastAuth,       \* the back-end's last answer to register or login
    allRecords,     \* Main: the allRecords resource ("loading" or "ready")
    selected,       \* Main: selected signal ("undefined", "Cloud" or a record)
    cloudCalls,     \* Main: invoke("save_to_cloud") calls not yet settled
    cloudPr,        \* Main: the call the cloud resource is waiting for (0: none)
    cloudState,     \* Main: cloud.state
    cloudValue,     \* Main: the value of cloud()
    contentKind,    \* ContentValue: content.kind
    contentValue,   \* ContentValue: content.value
    visibility,     \* ContentValue: visibility signal
    valueCalls,     \* ContentValue: fetches of the value resource awaiting get_content_value
    valuePr,        \* ContentValue: the fetch the value resource waits for (0: none)
    valueLatest,    \* ContentValue: value.latest, bound to the input
    valueMessage,   \* ContentValue: the error dialog of a failed fetch ("" when none)
    cloudConfig,    \* back-end: the stored cloud configurations (none or one)
    cloudStatus,    \* CloudForm: status() ("undefined", "true" or "false")
    cloudDataCalls, \* CloudForm: invoke("cloud_data") calls not yet settled
    cloudStatusPr,  \* CloudForm: the call the status resource waits for (0: none)
    cloudAddress,   \* CloudForm: address signal
    cloudUsername,  \* CloudForm: username signal
    cloudPassword,  \* CloudForm: password signal
    cloudLoading,   \* CloudForm: loading signal
    cloudError,     \* CloudForm: error signal
    cloudFormCalls, \* CloudForm: onSubmit handlers waiting for the back-end or the dialog
    lastCloud,      \* CloudForm: the outcome of the last onSubmit that ended
    chPassword,     \* PasswordChangeForm: password signal
    chConfirm,      \* PasswordChangeForm: confirmPassword signal
    chStrength,     \* PasswordChangeForm: strength signal
    chLoading,      \* PasswordChangeForm: loading signal
    chError,        \* PasswordChangeForm: error signal
    chCalls,        \* PasswordChangeForm: onSubmit handlers not yet ended
    uploadEvents,   \* number of "upload" events the settings window has emitted
    lastChange,     \* the back-end's last answer to change_password
    shownRecords,   \* Main: the value of allRecords() (the items listed)
    listCalls,      \* Main: invoke("get_all_records") calls not yet settled
    listPr,         \* Main: the call the allRecords resource waits for (0: none)
    compromisedPending, \* Main: get_compromised_records calls not yet settled
    menu,           \* Main: the item whose context menu is open ("none": closed)
    recordCalls,    \* Main: invoke("delete_record") calls not yet settled
    dialogResult,   \* start_over: the dialog's last answer ("none": not yet; "ran": it was run)
    unsynced,       \* history: a deletion is stored and no upload was asked since
    clock,          \* hours since the start of the behaviour
    pwCommon,       \* the stored password is on the common-password list
    lookedUpAt,     \* hour of the last remote lookup of the password, -1: never
    verdict,        \* what the last answered remote lookup found
    lookups,        \* history: the remote lookups issued, [t, sent]
    checkCalls,     \* check_password_from_database calls: [n, resp, net]
    checkPr,        \* the call made by the ContentValue now shown, 0: none
    pwError,        \* the error signal of the ContentValue now shown
    lastCheck,      \* history: the call last settled in the ContentValue shown
    now,            \* the time of the back-end, in seconds
    polled,         \* the interval has fired, or the view was created, in this second
    totpCalls,      \* get_totp_code calls: [n, resp, code, left]
    totp,           \* the totp signal: <<code, seconds>>
    prevAnswer,     \* history: the answer computed before the last one
    lastAnswer,     \* history: the answer computed last, [at, code, left]
    passwordLength, \* the passwordLength signal
    classFlags,     \* the signals numbers, upperCase, lowerCase, symbols
    genValue,       \* content.value of the Password
    genShown,       \* the value of the value resource (value.latest)
    genValidity,    \* the custom validity of the value input, "": valid
    genStrength,    \* the passwordStrength signal
    genError,       \* the error signal
    genCalls,       \* the runs of the Generate handler: [length, flags, resp]
    fKind,          \* the kind of the content of the field
    fEdit,          \* the edit signal of the form
    fValue,         \* content.value, a sequence of characters
    fValidity,      \* the custom validity of the value input, "": valid
    fLastInput,     \* history: the value last typed, <<>> once the fetcher wrote content.value
    validateCalls,  \* validate calls: [n, value, resp, err]
    fetchCalls,     \* get_content_value calls of the value resource: [n, resp]
    fMessage,       \* the error dialog of the value resource, "": closed
    fSaving,        \* the submit handler waits for save_record
    lastPayload,    \* history: the content of the last save_record call, [kind, value]
    strength,       \* PasswordStrengthIndicator: the strength it is given
    lastSubmit,     \* history: the last submission of the register form
    compromisedRecords, \* Main: value of the compromisedRecords resource
    compromisedLoading, \* Main: compromisedRecords.loading
    compromisedOnly, \* Main: the compromisedOnly signal
    compromisedCalls, \* get_compromised_records calls in flight
    compromisedPr,  \* the call the resource waits for, 0 for none
    listLoading,    \* Main: allRecords.loading
    variantContent, \* RecordDetail (earlier variant): the allContent list
    variantConfirm, \* cid of the row whose delete dialog is open, 0 for none
    listenPc,       \* per component: the listen() call onMount is at
    listenSent,     \* per component: that call is not yet registered
    registered,     \* per component: the events with a registered listener
    unlistenFns,    \* per component: the events whose unlisten variable is set
    cleanedUp       \* per component: onCleanup has run

editorVars ==
    <<allContent, edit, dialogs, deleteCalls, dbContent, loaded>>

saveVars ==
    <<record, dbRecords, saveCalls, saveMessage, lastSave, assignedId>>

backendAuthVars ==
    <<dbFile, session, lastAuth>>

loginVars ==
    <<loginPassword, loginLoading, loginError, loginCalls>>

registerVars ==
    <<regInput, regConfirmInput, regPassword, regConfirmPassword, regError,
      registerCalls>>

authVars ==
    <<dbFile, session, window, loginVars, registerVars, startOver, lastAuth>>

mainVars ==
    <<allRecords, selected, cloudCalls, cloudPr, cloudState, cloudValue>>

valueVars ==
    <<contentKind, contentValue, visibility, valueCalls, valuePr, valueLatest,
      valueMessage>>

cloudFormVars ==
    <<cloudConfig, cloudStatus, cloudDataCalls, cloudStatusPr, cloudAddress,
      cloudUsername, cloudPassword, cloudLoading, cloudError, cloudFormCalls,
      lastCloud>>

changeVars ==
    <<chPassword, chConfirm, chStrength, chLoading, chError, chCalls,
      uploadEvents, lastChange>>

recordsVars ==
    <<shownRecords, listCalls, listPr, compromisedPending, menu,
      recordCalls>>

startOverVars ==
    <<dialogResult>>

syncVars ==
    <<unsynced>>

checkVars ==
    <<clock, pwCommon, lookedUpAt, verdict, lookups, checkCalls, checkPr,
      pwError, lastCheck>>

totpVars ==
    <<now, polled, totpCalls, totp, prevAnswer, lastAnswer>>

generateVars ==
    <<passwordLength, classFlags, genValue, genShown, genValidity,
      genStrength, genError, genCalls>>

fieldVars ==
    <<fKind, fEdit, fValue, fValidity, fLastInput, validateCalls, fetchCalls,
      fMessage, fSaving, lastPayload>>

indicatorVars ==
    <<strength>>

submitVars ==
    <<lastSubmit>>

securityVars ==
    <<compromisedRecords, compromisedLoading, compromisedOnly,
      compromisedCalls, compromisedPr, listLoading>>

variantVars ==
    <<variantContent, variantConfirm>>

listenerVars ==
    <<listenPc, listenSent, registered, unlistenFns, cleanedUp>>

vars ==
    <<editorVars, saveVars, authVars, mainVars, valueVars, cloudFormVars,
      changeVars,
      recordsVars,
      startOverVars,
      syncVars,
      checkVars,
      totpVars,
      generateVars,
      fieldVars,
      indicatorVars,
      submitVars,
      securityVars,
      variantVars,
      listenerVars>>

notEditorVars ==
    <<saveVars, authVars, mainVars, valueVars, cloudFormVars, changeVars,
      recordsVars,
      startOverVars,
      syncVars,
      checkVars,
      totpVars,
      generateVars,
      fieldVars,
      indicatorVars,
      submitVars,
      securityVars,
      variantVars,
      listenerVars>>

notSaveVars ==
    <<dialogs, deleteCalls, authVars, mainVars, valueVars, cloudFormVars, changeVars,
      recordsVars,
      startOverVars,
      syncVars,
      checkVars,
      totpVars,
      generateVars,
      fieldVars,
      indicatorVars,
      submitVars,
      securityVars,
      variantVars,
      listenerVars>>

notAuthVars ==
    <<editorVars, saveVars, mainVars, valueVars, cloudFormVars, changeVars,
      recordsVars,
      startOverVars,
      syncVars,
      checkVars,
      totpVars,
      generateVars,
      fieldVars,
      indicatorVars,
      submitVars,
      securityVars,
      variantVars,
      listenerVars>>

notMainVars ==
    <<editorVars, saveVars, authVars, valueVars, cloudFormVars, changeVars,
      recordsVars,
      startOverVars,
      syncVars,
      checkVars,
      totpVars,
      generateVars,
      fieldVars,
      indicatorVars,
      submitVars,
      securityVars,
      variantVars,
      listenerVars>>

notValueVars ==
    <<allContent, dialogs, deleteCalls, dbContent, loaded, saveVars, authVars,
      mainVars, cloudFormVars, changeVars,
      recordsVars,
      startOverVars,
      syncVars,
      checkVars,
      totpVars,
      generateVars,
      fieldVars,
      indicatorVars,
      submitVars,
      securityVars,
      variantVars,
      listenerVars>>

notCloudVars ==
    <<editorVars, saveVars, authVars, mainVars, valueVars, changeVars,
      recordsVars,
      startOverVars,
      syncVars,
      checkVars,
      totpVars,
      generateVars,
      fieldVars,
      indicatorVars,
      submitVars,
      securityVars,
      variantVars,
      listenerVars>>

\* PasswordChangeForm reads and writes the master password of the database.
notChangeVars ==
    <<editorVars, saveVars, session, window, loginVars, registerVars,
      startOver, lastAuth, mainVars, valueVars, cloudFormVars,
      recordsVars,
      startOverVars,
      syncVars,
      checkVars,
      totpVars,
      generateVars,
      fieldVars,
      indicatorVars,
      submitVars,
      securityVars,
      variantVars,
      listenerVars>>

\* Main with its record list reads and writes the rows of the store.
notRecordsVars ==
    <<allContent, edit, dialogs, deleteCalls, loaded, record, saveCalls,
      saveMessage, lastSave, assignedId, authVars, valueVars, cloudFormVars,
      changeVars,
      startOverVars,
      checkVars,
      totpVars,
      generateVars,
      fieldVars,
      indicatorVars,
      submitVars,
      securityVars,
      variantVars,
      listenerVars>>

\* The pages of App together with the start-over dialog.
notStartOverVars ==
    <<editorVars, saveVars, mainVars, valueVars, cloudFormVars, changeVars,
      recordsVars,
      syncVars,
      checkVars,
      totpVars,
      generateVars,
      fieldVars,
      indicatorVars,
      submitVars,
      securityVars,
      variantVars,
      listenerVars>>

\* The breach check reads the store and writes the view's error signal.
notCheckVars ==
    <<editorVars, saveVars, authVars, mainVars, valueVars, cloudFormVars,
      changeVars, recordsVars, startOverVars, syncVars,
      totpVars,
      generateVars,
      fieldVars,
      indicatorVars,
      submitVars,
      securityVars,
      variantVars,
      listenerVars>>

\* The polled code reads the store and writes the totp signal.
notTotpVars ==
    <<editorVars, saveVars, authVars, mainVars, valueVars, cloudFormVars,
      changeVars, recordsVars, startOverVars, syncVars, checkVars,
      generateVars,
      fieldVars,
      indicatorVars,
      submitVars,
      securityVars,
      variantVars,
      listenerVars>>

\* The generator writes the signals of its own ContentValue only.
notGenerateVars ==
    <<editorVars, saveVars, authVars, mainVars, valueVars, cloudFormVars,
      changeVars, recordsVars, startOverVars, syncVars, checkVars, totpVars,
      fieldVars,
      indicatorVars,
      submitVars,
      securityVars,
      variantVars,
      listenerVars>>

\* A field of the record form writes its own content and signals only.
notFieldVars ==
    <<editorVars, saveVars, authVars, mainVars, valueVars, cloudFormVars,
      changeVars, recordsVars, startOverVars, syncVars, checkVars, totpVars,
      generateVars,
      indicatorVars,
      submitVars,
      securityVars,
      variantVars,
      listenerVars>>

notIndicatorVars ==
    <<editorVars, saveVars, authVars, mainVars, valueVars, cloudFormVars,
      changeVars, recordsVars, startOverVars, syncVars, checkVars, totpVars,
      generateVars, fieldVars,
      submitVars,
      securityVars,
      variantVars,
      listenerVars>>

notRegisterVars ==
    <<editorVars, saveVars, mainVars, valueVars, cloudFormVars, changeVars,
      recordsVars, startOverVars, syncVars, checkVars, totpVars,
      generateVars, fieldVars, indicatorVars,
      securityVars,
      variantVars,
      listenerVars>>

notSecurityVars ==
    <<editorVars, saveVars, authVars, mainVars, valueVars, cloudFormVars,
      changeVars, recordsVars, startOverVars, syncVars, checkVars, totpVars,
      generateVars, fieldVars, indicatorVars, submitVars,
      variantVars,
      listenerVars>>

notVariantVars ==
    <<editorVars, saveVars, authVars, mainVars, valueVars, cloudFormVars,
      changeVars, recordsVars, startOverVars, syncVars, checkVars, totpVars,
      generateVars, fieldVars, indicatorVars, submitVars, securityVars,
      listenerVars>>

notListenerVars ==
    <<editorVars, saveVars, authVars, mainVars, valueVars, cloudFormVars,
      changeVars, recordsVars, startOverVars, syncVars, checkVars, totpVars,
      generateVars, fieldVars, indicatorVars, submitVars, securityVars,
      variantVars>>

\* ------------------------------------------------------------------------
\* Helpers on lists
\* ------------------------------------------------------------------------
Range(s) ==
    {s[k] : k \in DOMAIN s}

RemoveAt(s, k) ==
    [j \in 1..(Len(s) - 1) |-> IF j < k THEN s[j] ELSE s[j + 1]]

\* Content objects are identified by reference (cid); a new object takes a
\* reference no live object or handler holds.
CidsInUse ==
    {c.cid : c \in Range(allContent)}
        \cup {h.cid : h \in dialogs} \cup {h.cid : h \in deleteCalls}

FreshCid ==
    CHOOSE c \in 1..(MaxContent + 2 * MaxCalls + 2) : c \notin CidsInUse

\* Delete handlers are told apart by a number of their own.
FreshHandler ==
    CHOOSE n \in 1..(2 * MaxCalls + 2) :
        n \notin {h.n : h \in dialogs \cup deleteCalls}

\* new Content(label, position, required, kind, value, id); id 0 is "no id".
Content(cid, label, position, required, kind, id) ==
    [cid |-> cid, id |-> id, label |-> label, position |-> position,
     required |-> required, kind |-> kind]

\* ------------------------------------------------------------------------
\* RecordDetail: list operations (indices are the 0-based index() of <For>)
\* ------------------------------------------------------------------------

\* add_content listener: temp.push(new Content("", allContent().length, ...))
AddContentList(L, cid, kind) ==
    Append(L, Content(cid, "", Len(L), FALSE, kind, 0))

MoveUpListShifted(L, i) ==
    LET L1 == [L EXCEPT ![i].position = i + 1]
        L2 == [L1 EXCEPT ![i + 1].position = i - 1]
    IN  [L2 EXCEPT ![i] = L2[i + 1], ![i + 1] = L2[i]]

\* Move up on the row at index i (i > 0): the neighbour above takes position
\* i, the row takes i - 1, and the two swap places.
MoveUpList(L, i) ==
    LET L1 == [L EXCEPT ![i].position = i]
        L2 == [L1 EXCEPT ![i + 1].position = i - 1]
    IN  [L2 EXCEPT ![i] = L2[i + 1], ![i + 1] = L2[i]]

\* Move down on the row at index i (i < length - 1).
MoveDownList(L, i) ==
    LET L1 == [L EXCEPT ![i + 2].position = i]
        L2 == [L1 EXCEPT ![i + 1].position = i + 1]
    IN  [L2 EXCEPT ![i + 2] = L2[i + 1], ![i + 1] = L2[i + 2]]

\* temp.splice(index(), 1); temp.forEach((item, index) => item.position = index)
SpliceRenumber(L, i) ==
    LET T == IF i + 1 \in DOMAIN L THEN RemoveAt(L, i + 1) ELSE L
    IN  [j \in DOMAIN T |-> [T[j] EXCEPT !.position = j - 1]]

DeleteOfferedAlways(c) ==
    TRUE

\* <Show when={!content.required}> around the delete button.
DeleteOffered(c) ==
    ~c.required

\* The index() signal of a row follows its item while the item is listed and
\* keeps its last value once the row is disposed.
Reindex(h, L) ==
    IF \E k \in DOMAIN L : L[k].cid = h.cid
    THEN [h EXCEPT !.idx = (CHOOSE k \in DOMAIN L : L[k].cid = h.cid) - 1]
    ELSE h

\* ------------------------------------------------------------------------
\* Store (back-end): delete_content
\* ------------------------------------------------------------------------

\* The stored row of a content of record rid.
Row(rid, c) ==
    [record |-> rid, id |-> c.id, label |-> c.label, required |-> c.required,
     kind |-> c.kind, position |-> c.position]

\* Positions of the remaining rows are renumbered to 0..n-1 in order.
RenumberRows(rows) ==
    {[r EXCEPT !.position =
        Cardinality({q \in rows : q.position < r.position})] : r \in rows}

\* delete_content(content): NotFound for an id that is not stored, rejected
\* for a required row, otherwise the row is removed.
DeleteContentResult(db, id) ==
    IF ~\E r \in db : r.id = id THEN "NotFound"
    ELSE IF \E r \in db : r.id = id /\ r.required THEN "Required"
    ELSE "ok"

DeleteContentStore(db, id) ==
    IF DeleteContentResult(db, id) = "ok"
    THEN RenumberRows({r \in db : r.id # id})
    ELSE db

\* ------------------------------------------------------------------------
\* RecordDetail: actions of the content list editor
\* ------------------------------------------------------------------------
SetList(L) ==
    /\ allContent' = L
    /\ dialogs' = {Reindex(h, L) : h \in dialogs}
    /\ deleteCalls' = {Reindex(h, L) : h \in deleteCalls}

AddContent(kind) ==
    /\ edit
    /\ dialogs = {}
    /\ Len(allContent) < ContentLimit
    /\ Len(allContent) < MaxContent
    /\ SetList(AddContentList(allContent, FreshCid, kind))
    /\ UNCHANGED <<edit, dbContent, loaded>>

MoveUp(i) ==
    /\ edit
    /\ dialogs = {}
    /\ i > 0
    /\ SetList(MoveUpList(allContent, i))
    /\ UNCHANGED <<edit, dbContent, loaded>>

MoveDown(i) ==
    /\ edit
    /\ dialogs = {}
    /\ i < Len(allContent) - 1
    /\ SetList(MoveDownList(allContent, i))
    /\ UNCHANGED <<edit, dbContent, loaded>>

\* Delete button: the handler awaits the confirm dialog.
DeleteClick(i) ==
    /\ edit
    /\ dialogs = {}
    /\ DeleteOffered(allContent[i + 1])
    /\ Cardinality(deleteCalls) <= MaxCalls
    /\ dialogs' = {[n |-> FreshHandler,
                    cid |-> allContent[i + 1].cid, id |-> allContent[i + 1].id,
                    required |-> allContent[i + 1].required, idx |-> i,
                    resp |-> "confirm"]}
    /\ UNCHANGED <<allContent, edit, deleteCalls, dbContent, loaded>>

\* The dialog answers false: the handler returns.
ConfirmNo(h) ==
    /\ dialogs' = dialogs \ {h}
    /\ UNCHANGED <<allContent, edit, deleteCalls, dbContent, loaded>>

\* The dialog answers true: a content with an id is sent to delete_content,
\* one without is spliced out at once.
ConfirmYes(h) ==
    IF h.id # 0
    THEN /\ Cardinality({c \in deleteCalls : c.resp = "sent"}) < MaxCalls
         /\ dialogs' = dialogs \ {h}
         /\ deleteCalls' = deleteCalls \cup {[h EXCEPT !.resp = "sent"]}
         /\ UNCHANGED <<allContent, edit, dbContent, loaded>>
    ELSE /\ allContent' = SpliceRenumber(allContent, h.idx)
         /\ dialogs' = {}
         /\ deleteCalls' = {Reindex(c, allContent') : c \in deleteCalls}
         /\ UNCHANGED <<edit, dbContent, loaded>>

\* The store handles one delete_content call.
BackendDeleteContent(c) ==
    /\ c.resp = "sent"
    /\ dbContent' = DeleteContentStore(dbContent, c.id)
    /\ deleteCalls' = (deleteCalls \ {c})
            \cup {[c EXCEPT !.resp = DeleteContentResult(dbContent, c.id)]}
    /\ UNCHANGED <<allContent, edit, dialogs, loaded>>

DeleteContentReturnSplicing(c) ==
    /\ c.resp \notin {"sent", "confirm"}
    /\ allContent' = SpliceRenumber(allContent, c.idx)
    /\ dialogs' = {Reindex(h, allContent') : h \in dialogs}
    /\ deleteCalls' = {Reindex(h, allContent') : h \in deleteCalls \ {c}}
    /\ UNCHANGED <<edit, dbContent, loaded>>

\* invoke("delete_content") settles: on success the handler splices the item
\* out and renumbers, on rejection the handler ends with the exception.
DeleteContentReturn(c) ==
    /\ c.resp \notin {"sent", "confirm"}
    /\ IF c.resp = "ok"
       THEN /\ allContent' = SpliceRenumber(allContent, c.idx)
            /\ dialogs' = {Reindex(h, allContent') : h \in dialogs}
            /\ deleteCalls' =
                 {Reindex(h, allContent') : h \in deleteCalls \ {c}}
       ELSE /\ deleteCalls' = deleteCalls \ {c}
            /\ UNCHANGED <<allContent, dialogs>>
    /\ UNCHANGED <<edit, dbContent, loaded>>

\* The listing get_all_content_for_record returned, sorted by position.
LoadedKinds ==
    {"Password"}

LoadedLists ==
    UNION {[1..n -> [required : BOOLEAN, kind : LoadedKinds]] : n \in 0..MaxContent}

InitEditorOwn ==
    /\ \E f \in LoadedLists :
         loaded = [k \in DOMAIN f |->
                     Content(k, "a", k - 1, f[k].required, f[k].kind, k)]
    /\ allContent = loaded
    /\ dbContent = {Row(1, c) : c \in Range(loaded)}
    /\ edit = TRUE
    /\ dialogs = {}
    /\ deleteCalls = {}

NextEditor ==
    \/ \E kind \in Kinds : AddContent(kind) /\ UNCHANGED notEditorVars
    \/ \E i \in 0..(Len(allContent) - 1) : MoveUp(i) /\ UNCHANGED notEditorVars
    \/ \E i \in 0..(Len(allContent) - 1) : MoveDown(i) /\ UNCHANGED notEditorVars
    \/ \E i \in 0..(Len(allContent) - 1) : DeleteClick(i) /\ UNCHANGED notEditorVars
    \/ \E h \in dialogs : ConfirmNo(h) /\ UNCHANGED notEditorVars
    \/ \E h \in dialogs : ConfirmYes(h) /\ UNCHANGED notEditorVars
    \/ \E c \in deleteCalls : BackendDeleteContent(c) /\ UNCHANGED notEditorVars
    \/ \E c \in deleteCalls : DeleteContentReturn(c) /\ UNCHANGED notEditorVars

\* ------------------------------------------------------------------------
\* Store (back-end): save_record, get_all_content_for_record
\* ------------------------------------------------------------------------
Labels ==
    {"a", "b"}

\* The kind added in the save scenario (the stored rows are of LoadedKinds).
SaveKinds ==
    {"Text"}

NoSave ==
    [ret |-> 0, fields |-> {}, n |-> 0, read |-> FALSE]

RowsOf(db, rid) ==
    {r \in db : r.record = rid}

\* The n-th id (from 1) that no row uses.
NthFree(used, n) ==
    CHOOSE x \in 1..(Cardinality(used) + n) :
        x \notin used /\ Cardinality({y \in 1..x : y \notin used}) = n

\* What invoke serialises of the content list: the fields, not the objects.
Payload(L) ==
    [k \in DOMAIN L |-> [id |-> L[k].id, label |-> L[k].label,
                         position |-> L[k].position,
                         required |-> L[k].required, kind |-> L[k].kind]]

FieldSet(L) ==
    {<<L[k].label, L[k].kind>> : k \in DOMAIN L}

\* The rows of record rid after a save of content: an item whose id is stored
\* for the record keeps it, every other item is given an id no row has.
SavedRows(db, rid, content) ==
    LET kept(k) == content[k].id # 0
                     /\ \E r \in RowsOf(db, rid) : r.id = content[k].id
        used == {r.id : r \in db}
        rank(k) == Cardinality({j \in 1..k : ~kept(j)})
    IN  {Row(rid, [content[k] EXCEPT
                     !.id = IF kept(k) THEN content[k].id
                            ELSE NthFree(used, rank(k))]) : k \in DOMAIN content}

SaveRecordResult(recs, rec) ==
    IF rec.id = 0 \/ \E r \in recs : r.id = rec.id THEN "ok" ELSE "NotFound"

\* The id save_record returns: a new one for a record without id.
SaveRecordId(recs, rec) ==
    IF rec.id = 0 THEN NthFree({r.id : r \in recs}, 1) ELSE rec.id

SaveRecordRecords(recs, rec) ==
    {r \in recs : r.id # rec.id}
        \cup {[id |-> SaveRecordId(recs, rec), title |-> rec.title]}

\* After the save the record's stored content is the content of the call.
SaveRecordContent(recs, db, rec, content) ==
    (db \ RowsOf(db, SaveRecordId(recs, rec)))
        \cup SavedRows(db, SaveRecordId(recs, rec), content)

\* allContent resource: the rows mapped to new Content objects and sorted by
\* position (rows of equal position stay in the order the store lists them).
ReadBackList(rows) ==
    LET before(q, r) == q.position < r.position
                          \/ (q.position = r.position /\ q.id < r.id)
        rank(r) == Cardinality({q \in rows : before(q, r)})
        row(k) == CHOOSE r \in rows : rank(r) = k - 1
    IN  [k \in 1..Cardinality(rows) |->
           Content(k, row(k).label, row(k).position, row(k).required,
                   row(k).kind, row(k).id)]

\* ------------------------------------------------------------------------
\* RecordDetail: the form (title, labels, submit)
\* ------------------------------------------------------------------------
FreshSave ==
    CHOOSE n \in 1..(MaxCalls + 2) : n \notin {c.n : c \in saveCalls}

\* Label input onChange: content.label = event.target.value
LabelChange(i, l) ==
    /\ edit
    /\ saveMessage = ""
    /\ allContent' = [allContent EXCEPT ![i + 1].label = l]
    /\ UNCHANGED <<edit, dbContent, loaded, saveVars>>

\* The title and label inputs are "required" and read-only outside edit mode:
\* in edit mode an empty one keeps the form from being submitted.
FormValid ==
    edit => record.title # "" /\ \A k \in DOMAIN allContent : allContent[k].label # ""

\* onSubmit in view mode: setEdit(!edit()).
SubmitView ==
    /\ ~edit
    /\ saveMessage = ""
    /\ edit' = ~edit
    /\ UNCHANGED <<allContent, dbContent, loaded, saveVars>>

\* onSubmit in edit mode, up to the await: invoke("save_record", ...).
\* One submission is followed to its end before the next.
SubmitEdit ==
    /\ edit
    /\ saveMessage = ""
    /\ FormValid
    /\ saveCalls = {}
    /\ saveCalls' = saveCalls \cup
         {[n |-> FreshSave, rec |-> record, content |-> Payload(allContent),
           resp |-> "sent", err |-> "", ret |-> 0, created |-> 0,
           changed |-> FALSE]}
    /\ UNCHANGED <<allContent, edit, dbContent, loaded, record, dbRecords,
                   saveMessage, lastSave, assignedId>>

\* onSubmit in edit mode while an earlier save_record has not settled: the
\* Save button is not disabled meanwhile, and the handler runs again.
SubmitEditAgain ==
    /\ edit
    /\ saveMessage = ""
    /\ FormValid
    /\ saveCalls # {}
    /\ Cardinality(saveCalls) <= MaxCalls
    /\ saveCalls' = saveCalls \cup
         {[n |-> FreshSave, rec |-> record, content |-> Payload(allContent),
           resp |-> "sent", err |-> "", ret |-> 0, created |-> 0,
           changed |-> FALSE]}
    /\ UNCHANGED <<allContent, edit, dbContent, loaded, record, dbRecords,
                   saveMessage, lastSave, assignedId>>

\* The store handles one save_record call; a write may fail, and then the
\* transaction leaves the store as it was.
BackendSaveRecord(c, fails) ==
    /\ c.resp = "sent"
    /\ IF ~fails /\ SaveRecordResult(dbRecords, c.rec) = "ok"
       THEN /\ dbRecords' = SaveRecordRecords(dbRecords, c.rec)
            /\ dbContent' = SaveRecordContent(dbRecords, dbContent, c.rec, c.content)
            /\ lastSave' = [ret |-> SaveRecordId(dbRecords, c.rec),
                            fields |-> FieldSet(c.content),
                            n |-> Len(c.content), read |-> FALSE]
       ELSE UNCHANGED <<dbRecords, dbContent, lastSave>>
    /\ saveCalls' = (saveCalls \ {c}) \cup
         {[c EXCEPT !.resp = IF fails THEN "StorageError"
                             ELSE SaveRecordResult(dbRecords, c.rec),
                    !.ret = IF ~fails /\ SaveRecordResult(dbRecords, c.rec) = "ok"
                            THEN SaveRecordId(dbRecords, c.rec) ELSE 0,
                    !.created = Cardinality(dbRecords') - Cardinality(dbRecords),
                    !.changed = <<dbRecords', dbContent'>> # <<dbRecords, dbContent>>]}
    /\ UNCHANGED <<allContent, edit, loaded, record, saveMessage, assignedId>>

AssignIdNever(rec, c) ==
    rec

\* record().id = await invoke(...): assigned when the call is fulfilled.
AssignId(rec, c) ==
    IF c.resp = "ok" THEN [rec EXCEPT !.id = c.ret] ELSE rec

SaveCatchQuiet(e) ==
    ""

\* catch (e) { await message(e as string, ...) }
SaveCatch(e) ==
    e

\* save_record is fulfilled: the id is stored, the list refreshed, edit toggled.
SaveFulfilled(c) ==
    /\ c.resp = "ok"
    /\ saveMessage = ""
    /\ record' = AssignId(record, c)
    /\ assignedId' = c.ret
    /\ edit' = ~edit
    /\ saveCalls' = saveCalls \ {c}
    /\ UNCHANGED <<allContent, dbContent, loaded, dbRecords, saveMessage, lastSave>>

\* save_record is rejected: the handler opens the error dialog and waits.
SaveRejected(c) ==
    /\ c.resp \notin {"sent", "ok", "message"}
    /\ saveMessage = ""
    /\ record' = AssignId(record, c)
    /\ saveMessage' = SaveCatch(c.resp)
    /\ saveCalls' = (saveCalls \ {c})
         \cup {[c EXCEPT !.resp = "message", !.err = c.resp]}
    /\ UNCHANGED <<allContent, edit, dbContent, loaded, dbRecords, lastSave,
                   assignedId>>

\* The dialog is closed: refresh(), setEdit(!edit()).
MessageClosed(c) ==
    /\ c.resp = "message"
    /\ saveMessage' = ""
    /\ edit' = ~edit
    /\ saveCalls' = saveCalls \ {c}
    /\ UNCHANGED <<allContent, dbContent, loaded, record, dbRecords, lastSave,
                   assignedId>>

\* The record is selected again from the refreshed list: the allContent
\* resource fetches get_all_content_for_record for it.
ReadBack ==
    /\ saveMessage = ""
    /\ saveCalls = {}
    /\ \E r \in dbRecords :
         /\ r.id = record.id
         /\ record' = r
    /\ allContent' = ReadBackList(RowsOf(dbContent, record.id))
    /\ loaded' = allContent'
    /\ lastSave' = [lastSave EXCEPT !.read = TRUE]
    /\ UNCHANGED <<edit, dbContent, dbRecords, saveCalls, saveMessage, assignedId>>

IdleSave ==
    /\ record = [id |-> 0, title |-> ""]
    /\ dbRecords = {}
    /\ saveCalls = {}
    /\ saveMessage = ""
    /\ lastSave = NoSave
    /\ assignedId = 0

\* The editor opens on a new record (no id, empty list, edit mode) or on the
\* stored record 1 with its content as read from the store.
InitSaveOwn ==
    /\ dbContent = {Row(1, Content(1, "a", 0, TRUE, "Password", 1))}
    /\ dbRecords = {[id |-> 1, title |-> "t"]}
    /\ \/ /\ record = [id |-> 0, title |-> "t"]
          /\ allContent = <<>>
          /\ edit = TRUE
       \/ /\ record = [id |-> 1, title |-> "t"]
          /\ allContent = ReadBackList(RowsOf(dbContent, 1))
          /\ edit = FALSE
    /\ loaded = allContent
    /\ assignedId = record.id
    /\ saveCalls = {}
    /\ saveMessage = ""
    /\ lastSave = NoSave
    /\ dialogs = {}
    /\ deleteCalls = {}

NextSave ==
    \/ \E kind \in SaveKinds : saveMessage = "" /\ AddContent(kind) /\ UNCHANGED notEditorVars
    \/ \E i \in 0..(Len(allContent) - 1), l \in Labels : LabelChange(i, l) /\ UNCHANGED notSaveVars
    \/ SubmitView /\ UNCHANGED notSaveVars
    \/ SubmitEdit /\ UNCHANGED notSaveVars
    \/ \E c \in saveCalls, fails \in BOOLEAN : BackendSaveRecord(c, fails) /\ UNCHANGED notSaveVars
    \/ \E c \in saveCalls : SaveFulfilled(c) /\ UNCHANGED notSaveVars
    \/ \E c \in saveCalls : SaveRejected(c) /\ UNCHANGED notSaveVars
    \/ \E c \in saveCalls : MessageClosed(c) /\ UNCHANGED notSaveVars
    \/ ReadBack /\ UNCHANGED notSaveVars

\* ------------------------------------------------------------------------
\* Back-end: database file, session, top-level mode
\* ------------------------------------------------------------------------
Passwords ==
    {"p", "q"}

NoAuth ==
    [op |-> "none", ok |-> FALSE, pw |-> ""]

\* initialize_window: "Main" with an active session, "Login" with a database
\* file and no session, "Register" without a database file.
InitializeWindow(db, sess) ==
    IF sess THEN "Main" ELSE IF db # "none" THEN "Login" ELSE "Register"

\* register(password, confirm_password) creates the database when the two
\* agree and no database exists yet.
RegisterOk(db, pw, confirm) ==
    db = "none" /\ pw = confirm /\ pw \in Passwords

\* login(password) opens the database with its master password only.
LoginOk(db, pw) ==
    db # "none" /\ pw = db

PageMainForLogin(w) ==
    IF w = "loading" THEN "Loading"
    ELSE IF w = "Register" THEN "Register"
    ELSE IF w \in {"Login", "Main"} THEN "Main"
    ELSE "Not Found"

\* App: <Suspense> shows Loading while the window resource is pending, the
\* <Switch> picks the page for its value.
Page(w) ==
    IF w = "loading" THEN "Loading"
    ELSE IF w = "Register" THEN "Register"
    ELSE IF w = "Login" THEN "Login"
    ELSE IF w = "Main" THEN "Main"
    ELSE "Not Found"

\* The page is loaded anew: every component starts from its initial signals
\* and the calls of the old page are answered to nobody.
FreshLogin ==
    /\ loginPassword' = ""
    /\ loginLoading' = FALSE
    /\ loginError' = ""
    /\ loginCalls' = {}

FreshRegister ==
    /\ regInput' = ""
    /\ regConfirmInput' = ""
    /\ regPassword' = "undefined"
    /\ regConfirmPassword' = "undefined"
    /\ regError' = ""
    /\ registerCalls' = {}

ReloadWindow ==
    /\ window' = "loading"
    /\ FreshLogin
    /\ FreshRegister
    /\ startOver' = "idle"

\* App: createResource(async () => invoke("initialize_window")) settles.
InitializeWindowResolve ==
    /\ window = "loading"
    /\ window' = InitializeWindow(dbFile, session)
    /\ UNCHANGED <<dbFile, session, loginVars, registerVars, startOver, lastAuth>>

\* The application exits and is started again: the session is gone.
AppRestart ==
    /\ window # "loading"
    /\ session' = FALSE
    /\ lastAuth' = NoAuth
    /\ ReloadWindow
    /\ UNCHANGED dbFile

\* ------------------------------------------------------------------------
\* Register page
\* ------------------------------------------------------------------------
RegisterInput(p) ==
    /\ Page(window) = "Register"
    /\ regInput' = p
    /\ UNCHANGED <<dbFile, session, window, loginVars, regConfirmInput,
                   regPassword, regConfirmPassword, regError, registerCalls,
                   startOver, lastAuth>>

RegisterConfirmInput(p) ==
    /\ Page(window) = "Register"
    /\ regConfirmInput' = p
    /\ UNCHANGED <<dbFile, session, window, loginVars, regInput,
                   regPassword, regConfirmPassword, regError, registerCalls,
                   startOver, lastAuth>>

\* The result resource fetches when its source memo runs again, which it does
\* when one of the two signals it reads was set to a different value.
RegisterSourceChanged ==
    regInput # regPassword \/ regConfirmInput # regConfirmPassword

\* onSubmit: batch(() => { setPassword(input()); setConfirmPassword(...) }).
\* Both inputs are "required": an empty one is not submitted.
RegisterSubmit ==
    /\ Page(window) = "Register"
    /\ regInput # "" /\ regConfirmInput # ""
    /\ Cardinality(registerCalls) <= MaxCalls
    /\ regPassword' = regInput
    /\ regConfirmPassword' = regConfirmInput
    /\ registerCalls' =
         IF RegisterSourceChanged
         THEN registerCalls \cup
                {[pw |-> regInput, confirm |-> regConfirmInput, resp |-> "sent"]}
         ELSE registerCalls
    /\ UNCHANGED <<dbFile, session, window, loginVars, regInput,
                   regConfirmInput, regError, startOver, lastAuth>>

NoSubmit ==
    [pw |-> "", confirm |-> "", invoked |-> FALSE]

\* History of onSubmit: what was entered when the form was submitted, and
\* whether the result resource fetched, that is whether register was invoked.
SubmitNoted ==
    lastSubmit' = [pw |-> regInput, confirm |-> regConfirmInput,
                   invoked |-> RegisterSourceChanged]

IdleSubmit ==
    lastSubmit = NoSubmit

\* The back-end handles one register call.
BackendRegister(c) ==
    /\ c.resp = "sent"
    /\ IF RegisterOk(dbFile, c.pw, c.confirm)
       THEN /\ dbFile' = c.pw
            /\ session' = TRUE
            /\ lastAuth' = [op |-> "register", ok |-> TRUE, pw |-> c.pw]
            /\ ReloadWindow
       ELSE /\ registerCalls' =
                 (registerCalls \ {c}) \cup {[c EXCEPT !.resp = "RegisterError"]}
            /\ lastAuth' = [op |-> "register", ok |-> FALSE, pw |-> c.pw]
            /\ UNCHANGED <<dbFile, session, window, loginVars, regInput,
                           regConfirmInput, regPassword, regConfirmPassword,
                           regError, startOver>>

\* invokeRegister: .catch((register_error) => setError(register_error))
RegisterReturn(c) ==
    /\ c.resp # "sent"
    /\ regError' = c.resp
    /\ registerCalls' = registerCalls \ {c}
    /\ UNCHANGED <<dbFile, session, window, loginVars, regInput,
                   regConfirmInput, regPassword, regConfirmPassword,
                   startOver, lastAuth>>

\* ------------------------------------------------------------------------
\* Login page
\* ------------------------------------------------------------------------
LoginInput(p) ==
    /\ Page(window) = "Login"
    /\ loginPassword' = p
    /\ UNCHANGED <<dbFile, session, window, loginLoading, loginError,
                   loginCalls, registerVars, startOver, lastAuth>>

\* onSubmit up to the await, were the submit button never disabled.
LoginSubmitAnytime ==
    /\ Page(window) = "Login"
    /\ loginLoading' = TRUE
    /\ loginCalls' = loginCalls \cup {[pw |-> loginPassword, resp |-> "sent"]}
    /\ UNCHANGED <<dbFile, session, window, loginPassword, loginError,
                   registerVars, startOver, lastAuth>>

\* onSubmit up to the await; the submit button is disabled while loading().
LoginSubmit ==
    /\ Page(window) = "Login"
    /\ ~loginLoading
    /\ loginLoading' = TRUE
    /\ loginCalls' = loginCalls \cup {[pw |-> loginPassword, resp |-> "sent"]}
    /\ UNCHANGED <<dbFile, session, window, loginPassword, loginError,
                   registerVars, startOver, lastAuth>>

\* The back-end handles one login call: the right password opens a session
\* and the window moves to Main, any other is answered with an AuthError.
BackendLogin(c) ==
    /\ c.resp = "sent"
    /\ IF LoginOk(dbFile, c.pw)
       THEN /\ session' = TRUE
            /\ lastAuth' = [op |-> "login", ok |-> TRUE, pw |-> c.pw]
            /\ ReloadWindow
            /\ UNCHANGED dbFile
       ELSE /\ loginCalls' =
                 (loginCalls \ {c}) \cup {[c EXCEPT !.resp = "AuthError"]}
            /\ lastAuth' = [op |-> "login", ok |-> FALSE, pw |-> c.pw]
            /\ UNCHANGED <<dbFile, session, window, loginPassword,
                           loginLoading, loginError, registerVars, startOver>>

LoginCatchSilent(e) ==
    loginError

\* catch (e) { setError(e as string) }
LoginCatch(e) ==
    e

\* onSubmit after the await: catch, then finally setLoading(false).
LoginReturn(c) ==
    /\ c.resp # "sent"
    /\ loginError' = LoginCatch(c.resp)
    /\ loginLoading' = FALSE
    /\ loginCalls' = loginCalls \ {c}
    /\ UNCHANGED <<dbFile, session, window, loginPassword, registerVars,
                   startOver, lastAuth>>

\* ------------------------------------------------------------------------
\* Start over (login page)
\* ------------------------------------------------------------------------
StartOverClick ==
    /\ Page(window) = "Login"
    /\ startOver = "idle"
    /\ startOver' = "confirm"
    /\ UNCHANGED <<dbFile, session, window, loginVars, registerVars, lastAuth>>

StartOverConfirmAlways(result) ==
    /\ startOver = "confirm"
    /\ startOver' = "sent"
    /\ UNCHANGED <<dbFile, session, window, loginVars, registerVars, lastAuth>>

\* confirm(...).then((result) => { if (result) invoke("start_over") })
StartOverConfirm(result) ==
    /\ startOver = "confirm"
    /\ startOver' = IF result THEN "sent" ELSE "idle"
    /\ UNCHANGED <<dbFile, session, window, loginVars, registerVars, lastAuth>>

\* The back-end destroys the database file and goes back to Register.
BackendStartOver ==
    /\ startOver = "sent"
    /\ dbFile' = "none"
    /\ session' = FALSE
    /\ lastAuth' = NoAuth
    /\ ReloadWindow

\* ------------------------------------------------------------------------
\* Main: selection and the cloud resource
\* ------------------------------------------------------------------------
\* The records allRecords lists.
MainRecords ==
    {"r1", "r2"}

FreshCloudCall ==
    CHOOSE n \in 1..(MaxCalls + 2) : n \notin {c.n : c \in cloudCalls}

\* The fetcher of the cloud resource runs: a save_to_cloud call is invoked
\* and the resource waits for it (a refetch does not look at cloud.loading).
CloudFetch ==
    /\ cloudCalls' = cloudCalls \cup {[n |-> FreshCloudCall, resp |-> "sent"]}
    /\ cloudPr' = FreshCloudCall
    /\ cloudState' = IF cloudState \in {"unresolved", "pending"}
                     THEN "pending" ELSE "refreshing"
    /\ UNCHANGED cloudValue

\* <Match when={selected() instanceof Record}>: RecordDetail is mounted while
\* a record is selected, whichever it is.
DetailMounted(sel) ==
    sel \in MainRecords

\* setSelected(value); when RecordDetail is unmounted by it, its onCleanup
\* calls props.uploadToCloud(), the refetch of the cloud resource.
SetSelected(value) ==
    /\ selected' = value
    /\ IF DetailMounted(selected) /\ ~DetailMounted(value)
       THEN CloudFetch
       ELSE UNCHANGED <<cloudCalls, cloudPr, cloudState, cloudValue>>
    /\ UNCHANGED allRecords

\* createResource(get_all_records) settles: the list is shown.
AllRecordsResolve ==
    /\ allRecords = "loading"
    /\ allRecords' = "ready"
    /\ UNCHANGED <<selected, cloudCalls, cloudPr, cloudState, cloudValue>>

\* Click on a record of the list: select it, or deselect the selected one.
RecordClick(item) ==
    /\ allRecords = "ready"
    /\ Cardinality(cloudCalls) <= MaxCalls
    /\ SetSelected(IF selected = item THEN "undefined" ELSE item)

\* Click on "Cloud settings".
CloudClick ==
    /\ allRecords = "ready"
    /\ Cardinality(cloudCalls) <= MaxCalls
    /\ SetSelected(IF selected = "Cloud" THEN "undefined" ELSE "Cloud")

\* Click on the empty part of the side bar.
BackgroundClick ==
    /\ selected # "undefined"
    /\ Cardinality(cloudCalls) <= MaxCalls
    /\ SetSelected("undefined")

CloudStatusTextOfValue(state, value) ==
    IF state \in {"unresolved", "pending", "refreshing"} THEN "Syncing..."
    ELSE value

\* The line under "Cloud settings": the <Suspense> fallback while the
\* resource is pending, "Failed to sync" when it is errored, else cloud().
CloudStatusText(state, value) ==
    IF state \in {"unresolved", "pending", "refreshing"} THEN "Syncing..."
    ELSE IF state = "errored" THEN "Failed to sync"
    ELSE value

\* The back-end answers one save_to_cloud call with a status or a failure.
BackendSaveToCloud(c, ok) ==
    /\ c.resp = "sent"
    /\ cloudCalls' = (cloudCalls \ {c})
         \cup {[c EXCEPT !.resp = IF ok THEN "Synced" ELSE "ConnectionError"]}
    /\ UNCHANGED <<allRecords, selected, cloudPr, cloudState, cloudValue>>

\* A save_to_cloud promise settles: the resource takes the result of the call
\* it waits for and ignores the result of a call a refetch has superseded.
SaveToCloudReturn(c) ==
    /\ c.resp # "sent"
    /\ cloudCalls' = cloudCalls \ {c}
    /\ IF c.n = cloudPr
       THEN /\ cloudPr' = 0
            /\ cloudState' = IF c.resp = "Synced" THEN "ready" ELSE "errored"
            /\ cloudValue' = IF c.resp = "Synced" THEN c.resp ELSE "undefined"
       ELSE UNCHANGED <<cloudPr, cloudState, cloudValue>>
    /\ UNCHANGED <<allRecords, selected>>

IdleMain ==
    /\ allRecords = "loading"
    /\ selected = "undefined"
    /\ cloudCalls = {}
    /\ cloudPr = 0
    /\ cloudState = "unresolved"
    /\ cloudValue = "undefined"

\* Main has just been mounted: its resources have started their first fetch.
InitMainOwn ==
    /\ allRecords = "loading"
    /\ selected = "undefined"
    /\ cloudCalls = {[n |-> 1, resp |-> "sent"]}
    /\ cloudPr = 1
    /\ cloudState = "pending"
    /\ cloudValue = "undefined"

NextMain ==
    \/ AllRecordsResolve /\ UNCHANGED notMainVars
    \/ \E item \in MainRecords : RecordClick(item) /\ UNCHANGED notMainVars
    \/ CloudClick /\ UNCHANGED notMainVars
    \/ BackgroundClick /\ UNCHANGED notMainVars
    \/ \E c \in cloudCalls, ok \in BOOLEAN : BackendSaveToCloud(c, ok) /\ UNCHANGED notMainVars
    \/ \E c \in cloudCalls : SaveToCloudReturn(c) /\ UNCHANGED notMainVars

\* ------------------------------------------------------------------------
\* ContentValue: the value resource of a persisted sensitive content
\* ------------------------------------------------------------------------
SensitiveKinds ==
    {"SensitiveText", "Password", "BankCardNumber", "TOTPSecret"}

Mask ==
    "*******************"

\* What get_all_content_for_record lists as the value of a sensitive content.
ListedValue(kind) ==
    IF kind \in SensitiveKinds THEN "redacted" ELSE "stored"

\* What the field shows: the <Switch> renders the TOTP code for a TOTPSecret
\* outside edit mode, and otherwise an input (a textarea for LongText) bound
\* to value.latest.
DisplayedValue(kind, e, latest) ==
    IF kind = "TOTPSecret" /\ ~e THEN "totp code" ELSE latest

FreshValueCall ==
    CHOOSE n \in 1..(MaxCalls + 2) : n \notin {c.n : c \in valueCalls}

FetchesPlaintextAlways(e, visible) ==
    TRUE

\* else if (edit || visible): the branch that invokes get_content_value.
FetchesPlaintext(e, visible) ==
    e \/ visible

\* The context menu has a Reveal / Hide item for these kinds only.
RevealOffered(kind) ==
    kind \in {"SensitiveText", "Password", "BankCardNumber"}

\* The fetcher of the value resource runs for the source [e, visible]: it
\* either invokes get_content_value and waits, or sets the mask, which the
\* resource takes as its value at once.
ValueFetch(e, visible) ==
    IF FetchesPlaintext(e, visible)
    THEN /\ valueCalls' = valueCalls \cup
              {[n |-> FreshValueCall, edit |-> e, visible |-> visible,
                resp |-> "sent"]}
         /\ valuePr' = FreshValueCall
         /\ UNCHANGED <<contentValue, valueLatest>>
    ELSE /\ contentValue' = Mask
         /\ valueLatest' = Mask
         /\ valuePr' = 0
         /\ UNCHANGED valueCalls

\* The record form is submitted: setEdit(!edit()); the source of the value
\* resource changes and it fetches.
EditToggle ==
    /\ valueMessage = ""
    /\ Cardinality(valueCalls) <= MaxCalls
    /\ edit' = ~edit
    /\ ValueFetch(edit', visibility)
    /\ UNCHANGED <<contentKind, visibility, valueMessage>>

\* Outside edit mode a click on the value opens the menu; its Reveal / Hide
\* item emits "visibility<id>", whose listener toggles the visibility signal.
RevealToggle ==
    /\ valueMessage = ""
    /\ ~edit
    /\ RevealOffered(contentKind)
    /\ Cardinality(valueCalls) <= MaxCalls
    /\ visibility' = ~visibility
    /\ ValueFetch(edit, visibility')
    /\ UNCHANGED <<edit, contentKind, valueMessage>>

\* Input in edit mode: content.value = event.target.value
ValueInput ==
    /\ valueMessage = ""
    /\ edit
    /\ contentValue' = "typed"
    /\ UNCHANGED <<edit, contentKind, visibility, valueCalls, valuePr,
                   valueLatest, valueMessage>>

\* The back-end answers get_content_value with the plaintext or an error.
BackendGetContentValue(c, ok) ==
    /\ c.resp = "sent"
    /\ valueCalls' = (valueCalls \ {c})
         \cup {[c EXCEPT !.resp = IF ok THEN "plaintext" ELSE "NotFound"]}
    /\ UNCHANGED <<edit, contentKind, contentValue, visibility, valuePr,
                   valueLatest, valueMessage>>

\* A fetch ends with content.value as its result: the resource takes it if it
\* still waits for this fetch.
ValueFetchEnd(c, result) ==
    /\ valueCalls' = valueCalls \ {c}
    /\ IF c.n = valuePr
       THEN valueLatest' = result /\ valuePr' = 0
       ELSE UNCHANGED <<valueLatest, valuePr>>

\* get_content_value is fulfilled: content.value = the plaintext, returned.
GetContentValueFulfilled(c) ==
    /\ c.resp = "plaintext"
    /\ contentValue' = c.resp
    /\ ValueFetchEnd(c, contentValue')
    /\ UNCHANGED <<edit, contentKind, visibility, valueMessage>>

\* get_content_value is rejected: the fetcher opens the error dialog.
GetContentValueRejected(c) ==
    /\ c.resp \notin {"sent", "plaintext", "message"}
    /\ valueMessage = ""
    /\ valueMessage' = c.resp
    /\ valueCalls' = (valueCalls \ {c}) \cup {[c EXCEPT !.resp = "message"]}
    /\ UNCHANGED <<edit, contentKind, contentValue, visibility, valuePr,
                   valueLatest>>

\* The dialog is closed: the fetcher returns content.value as it is.
ValueMessageClosed(c) ==
    /\ c.resp = "message"
    /\ valueMessage' = ""
    /\ ValueFetchEnd(c, contentValue)
    /\ UNCHANGED <<edit, contentKind, contentValue, visibility>>

IdleValue ==
    /\ contentKind = "Text"
    /\ contentValue = ""
    /\ visibility = FALSE
    /\ valueCalls = {}
    /\ valuePr = 0
    /\ valueLatest = "undefined"
    /\ valueMessage = ""

\* A ContentValue has just been created for a listed sensitive content: its
\* resource has run its first fetch for [edit(), false].
InitValueOwn ==
    /\ contentKind \in SensitiveKinds
    /\ edit \in BOOLEAN
    /\ visibility = FALSE
    /\ valueMessage = ""
    /\ IF FetchesPlaintext(edit, visibility)
       THEN /\ valueCalls = {[n |-> 1, edit |-> edit, visible |-> visibility,
                              resp |-> "sent"]}
            /\ valuePr = 1
            /\ contentValue = ListedValue(contentKind)
            /\ valueLatest = "undefined"
       ELSE /\ valueCalls = {}
            /\ valuePr = 0
            /\ contentValue = Mask
            /\ valueLatest = Mask

NextValue ==
    \/ EditToggle /\ UNCHANGED notValueVars
    \/ RevealToggle /\ UNCHANGED notValueVars
    \/ ValueInput /\ UNCHANGED notValueVars
    \/ \E c \in valueCalls, ok \in BOOLEAN : BackendGetContentValue(c, ok) /\ UNCHANGED notValueVars
    \/ \E c \in valueCalls : GetContentValueFulfilled(c) /\ UNCHANGED notValueVars
    \/ \E c \in valueCalls : GetContentValueRejected(c) /\ UNCHANGED notValueVars
    \/ \E c \in valueCalls : ValueMessageClosed(c) /\ UNCHANGED notValueVars

\* ------------------------------------------------------------------------
\* CloudForm (Settings): the cloud configuration form
\* ------------------------------------------------------------------------
Addresses ==
    {"host:1"}

Usernames ==
    {"u"}

CloudSecrets ==
    {"s"}

\* The errors of a failed initial handshake.
CloudErrors ==
    {"ConnectionError", "AuthError"}

NoCloud ==
    [op |-> "none", ok |-> TRUE]

\* cloud_data answers with the stored address and username, and is rejected
\* when no configuration is stored.
CloudData(config) ==
    IF config = {} THEN "none" ELSE "data"

\* if (status()): a pending resource yields undefined, which is falsy.
Truthy(s) ==
    s = "true"

\* The command onSubmit invokes.
FormOp(s) ==
    IF Truthy(s) THEN "disable_cloud" ELSE "enable_cloud"

\* title={!status() ? "Setup" : "Remove"}
ButtonTitle(s) ==
    IF ~Truthy(s) THEN "Setup" ELSE "Remove"

FormShownAlways ==
    TRUE

\* The page is rendered under App's <Suspense>, and the submit button reads
\* status(): while the status resource is pending the fallback is in the
\* document in place of the form.
FormShown ==
    cloudStatusPr = 0

FreshCloudDataCall ==
    IF cloudDataCalls = {} THEN 1
    ELSE 1 + (CHOOSE n \in {c.n : c \in cloudDataCalls} :
                 \A c \in cloudDataCalls : c.n <= n)

\* refetchStatus(): the fetcher runs and the resource waits for its call.
RefetchStatus ==
    /\ cloudDataCalls' = cloudDataCalls
         \cup {[n |-> FreshCloudDataCall, resp |-> "sent", result |-> {}]}
    /\ cloudStatusPr' = FreshCloudDataCall

CloudAddressInput(a) ==
    /\ FormShown
    /\ cloudAddress' = a
    /\ UNCHANGED <<cloudConfig, cloudStatus, cloudDataCalls, cloudStatusPr,
                   cloudUsername, cloudPassword, cloudLoading, cloudError,
                   cloudFormCalls, lastCloud>>

CloudUsernameInput(u) ==
    /\ FormShown
    /\ cloudUsername' = u
    /\ UNCHANGED <<cloudConfig, cloudStatus, cloudDataCalls, cloudStatusPr,
                   cloudAddress, cloudPassword, cloudLoading, cloudError,
                   cloudFormCalls, lastCloud>>

CloudPasswordInput(p) ==
    /\ FormShown
    /\ cloudPassword' = p
    /\ UNCHANGED <<cloudConfig, cloudStatus, cloudDataCalls, cloudStatusPr,
                   cloudAddress, cloudUsername, cloudLoading, cloudError,
                   cloudFormCalls, lastCloud>>

\* onSubmit up to its first await: setLoading(true), then disable_cloud or
\* enable_cloud by status().  The submit button is disabled while loading.
CloudSubmit ==
    /\ FormShown
    /\ ~cloudLoading
    /\ Cardinality(cloudDataCalls) <= MaxCalls
    /\ cloudLoading' = TRUE
    /\ cloudFormCalls' = cloudFormCalls \cup
         {IF FormOp(cloudStatus) = "enable_cloud"
          THEN [op |-> "enable_cloud", address |-> cloudAddress,
                username |-> cloudUsername, password |-> cloudPassword,
                resp |-> "sent"]
          ELSE [op |-> "disable_cloud", address |-> "", username |-> "",
                password |-> "", resp |-> "sent"]}
    /\ UNCHANGED <<cloudConfig, cloudStatus, cloudDataCalls, cloudStatusPr,
                   cloudAddress, cloudUsername, cloudPassword, cloudError,
                   lastCloud>>

\* enable_cloud: the configuration is stored when the initial handshake
\* succeeds; a failed handshake is answered with its error and stores nothing.
BackendEnableCloud(c, r) ==
    /\ c.op = "enable_cloud"
    /\ c.resp = "sent"
    /\ cloudConfig' =
         IF r = "ok"
         THEN {[address |-> c.address, username |-> c.username]}
         ELSE cloudConfig
    /\ cloudFormCalls' = (cloudFormCalls \ {c}) \cup {[c EXCEPT !.resp = r]}
    /\ UNCHANGED <<cloudStatus, cloudDataCalls, cloudStatusPr, cloudAddress,
                   cloudUsername, cloudPassword, cloudLoading, cloudError,
                   lastCloud>>

\* disable_cloud: the configuration is discarded.
BackendDisableCloud(c) ==
    /\ c.op = "disable_cloud"
    /\ c.resp = "sent"
    /\ cloudConfig' = {}
    /\ cloudFormCalls' = (cloudFormCalls \ {c}) \cup {[c EXCEPT !.resp = "ok"]}
    /\ UNCHANGED <<cloudStatus, cloudDataCalls, cloudStatusPr, cloudAddress,
                   cloudUsername, cloudPassword, cloudLoading, cloudError,
                   lastCloud>>

\* onSubmit after the branch: setError(""), setPassword(""), refetchStatus(),
\* and finally setLoading(false).
CloudFormDone(c) ==
    /\ cloudError' = ""
    /\ cloudPassword' = ""
    /\ RefetchStatus
    /\ cloudLoading' = FALSE
    /\ cloudFormCalls' = cloudFormCalls \ {c}
    /\ lastCloud' = [op |-> c.op, ok |-> TRUE]
    /\ UNCHANGED <<cloudConfig, cloudStatus, cloudAddress, cloudUsername>>

\* enable_cloud is fulfilled.
EnableCloudFulfilled(c) ==
    /\ c.op = "enable_cloud"
    /\ c.resp = "ok"
    /\ CloudFormDone(c)

\* disable_cloud is fulfilled: the "Cloud disabled successfully!" dialog opens.
DisableCloudFulfilled(c) ==
    /\ c.op = "disable_cloud"
    /\ c.resp = "ok"
    /\ cloudFormCalls' =
         (cloudFormCalls \ {c}) \cup {[c EXCEPT !.resp = "message"]}
    /\ UNCHANGED <<cloudConfig, cloudStatus, cloudDataCalls, cloudStatusPr,
                   cloudAddress, cloudUsername, cloudPassword, cloudLoading,
                   cloudError, lastCloud>>

\* The dialog is closed.
CloudMessageClosed(c) ==
    /\ c.resp = "message"
    /\ CloudFormDone(c)

CloudFormCatchQuiet(e) ==
    cloudError

\* catch (e) { setError(e as string) }
CloudFormCatch(e) ==
    e

\* The command is rejected: catch, then finally setLoading(false).
CloudFormRejected(c) ==
    /\ c.resp \in CloudErrors
    /\ cloudError' = CloudFormCatch(c.resp)
    /\ cloudLoading' = FALSE
    /\ cloudFormCalls' = cloudFormCalls \ {c}
    /\ lastCloud' = [op |-> c.op, ok |-> FALSE]
    /\ UNCHANGED <<cloudConfig, cloudStatus, cloudDataCalls, cloudStatusPr,
                   cloudAddress, cloudUsername, cloudPassword>>

\* The back-end answers cloud_data.
BackendCloudData(c) ==
    /\ c.resp = "sent"
    /\ cloudDataCalls' = (cloudDataCalls \ {c})
         \cup {[c EXCEPT !.resp = CloudData(cloudConfig),
                         !.result = cloudConfig]}
    /\ UNCHANGED <<cloudConfig, cloudStatus, cloudStatusPr, cloudAddress,
                   cloudUsername, cloudPassword, cloudLoading, cloudError,
                   cloudFormCalls, lastCloud>>

\* A run of the fetcher ends: the resource takes its result if it still
\* waits for this run.
StatusFetchEnd(c, result) ==
    /\ cloudDataCalls' = cloudDataCalls \ {c}
    /\ IF c.n = cloudStatusPr
       THEN cloudStatus' = result /\ cloudStatusPr' = 0
       ELSE UNCHANGED <<cloudStatus, cloudStatusPr>>

\* cloud_data is fulfilled: setAddress, setUsername, return true.
CloudDataFulfilled(c) ==
    /\ c.resp = "data"
    /\ \E cfg \in c.result :
          /\ cloudAddress' = cfg.address
          /\ cloudUsername' = cfg.username
    /\ StatusFetchEnd(c, "true")
    /\ UNCHANGED <<cloudConfig, cloudPassword, cloudLoading, cloudError,
                   cloudFormCalls, lastCloud>>

\* cloud_data is rejected: catch, return false.
CloudDataRejected(c) ==
    /\ c.resp = "none"
    /\ StatusFetchEnd(c, "false")
    /\ UNCHANGED <<cloudConfig, cloudAddress, cloudUsername, cloudPassword,
                   cloudLoading, cloudError, cloudFormCalls, lastCloud>>

IdleCloud ==
    /\ cloudConfig = {}
    /\ cloudStatus = "undefined"
    /\ cloudDataCalls = {}
    /\ cloudStatusPr = 0
    /\ cloudAddress = ""
    /\ cloudUsername = ""
    /\ cloudPassword = ""
    /\ cloudLoading = FALSE
    /\ cloudError = ""
    /\ cloudFormCalls = {}
    /\ lastCloud = NoCloud

\* The settings page has just been opened in an unlocked vault, with or
\* without a stored configuration: the status resource has run its fetcher.
InitCloudOwn ==
    /\ cloudConfig \in {{}} \cup
         {{[address |-> a, username |-> u]} : a \in Addresses, u \in Usernames}
    /\ cloudStatus = "undefined"
    /\ cloudDataCalls = {[n |-> 1, resp |-> "sent", result |-> {}]}
    /\ cloudStatusPr = 1
    /\ cloudAddress = ""
    /\ cloudUsername = ""
    /\ cloudPassword = ""
    /\ cloudLoading = FALSE
    /\ cloudError = ""
    /\ cloudFormCalls = {}
    /\ lastCloud = NoCloud
    /\ dbFile = "p"
    /\ session = TRUE
    /\ window = "Main"
    /\ loginPassword = ""
    /\ loginLoading = FALSE
    /\ loginError = ""
    /\ loginCalls = {}
    /\ regInput = ""
    /\ regConfirmInput = ""
    /\ regPassword = "undefined"
    /\ regConfirmPassword = "undefined"
    /\ regError = ""
    /\ registerCalls = {}
    /\ startOver = "idle"
    /\ lastAuth = [op |-> "login", ok |-> TRUE, pw |-> "p"]

NextCloud ==
    \/ \E a \in Addresses : CloudAddressInput(a) /\ UNCHANGED notCloudVars
    \/ \E u \in Usernames : CloudUsernameInput(u) /\ UNCHANGED notCloudVars
    \/ \E p \in CloudSecrets : CloudPasswordInput(p) /\ UNCHANGED notCloudVars
    \/ CloudSubmit /\ UNCHANGED notCloudVars
    \/ \E c \in cloudFormCalls, r \in {"ok"} \cup CloudErrors :
          BackendEnableCloud(c, r) /\ UNCHANGED notCloudVars
    \/ \E c \in cloudFormCalls : BackendDisableCloud(c) /\ UNCHANGED notCloudVars
    \/ \E c \in cloudFormCalls : EnableCloudFulfilled(c) /\ UNCHANGED notCloudVars
    \/ \E c \in cloudFormCalls : DisableCloudFulfilled(c) /\ UNCHANGED notCloudVars
    \/ \E c \in cloudFormCalls : CloudMessageClosed(c) /\ UNCHANGED notCloudVars
    \/ \E c \in cloudFormCalls : CloudFormRejected(c) /\ UNCHANGED notCloudVars
    \/ \E c \in cloudDataCalls : BackendCloudData(c) /\ UNCHANGED notCloudVars
    \/ \E c \in cloudDataCalls : CloudDataFulfilled(c) /\ UNCHANGED notCloudVars
    \/ \E c \in cloudDataCalls : CloudDataRejected(c) /\ UNCHANGED notCloudVars

\* ------------------------------------------------------------------------
\* PasswordChangeForm (Settings): changing the master password
\* ------------------------------------------------------------------------
\* What the user types as the new master password or its confirmation.
ChangeInputs ==
    {"q", "weak"}

NoChange ==
    [ok |-> TRUE, old |-> "", pw |-> "", err |-> ""]

\* password_strength(password): a score, 0 for the empty password.
PasswordStrength(pw) ==
    IF pw = "" THEN 0 ELSE IF pw = "weak" THEN 20 ELSE 80

\* The minimum-strength policy of change_password.
StrongEnough(pw) ==
    PasswordStrength(pw) >= 50

\* change_password(password, confirm_password): "ok", or the error.
ChangePasswordResult(pw, confirm) ==
    IF pw # confirm THEN "PasswordsDoNotMatch"
    ELSE IF ~StrongEnough(pw) THEN "WeakPassword"
    ELSE "ok"

\* onInput of the first input: setPassword, then setStrength with the
\* answer of password_strength (a pure function, taken in the same step).
ChangePasswordInput(p) ==
    /\ chPassword' = p
    /\ chStrength' = PasswordStrength(p)
    /\ UNCHANGED <<dbFile, chConfirm, chLoading, chError, chCalls,
                   uploadEvents, lastChange>>

ChangeConfirmInput(p) ==
    /\ chConfirm' = p
    /\ UNCHANGED <<dbFile, chPassword, chStrength, chLoading, chError,
                   chCalls, uploadEvents, lastChange>>

\* onSubmit up to its first await.  The submit button is disabled while
\* loading.
ChangeSubmit ==
    /\ ~chLoading
    /\ uploadEvents <= MaxCalls
    /\ chLoading' = TRUE
    /\ chCalls' = chCalls \cup
         {[pw |-> chPassword, confirm |-> chConfirm, resp |-> "sent"]}
    /\ UNCHANGED <<dbFile, chPassword, chConfirm, chStrength, chError,
                   uploadEvents, lastChange>>

\* The back-end handles change_password: the database is re-keyed to the
\* new master password, or nothing is changed and the error is returned.
BackendChangePassword(c) ==
    /\ c.resp = "sent"
    /\ LET r == ChangePasswordResult(c.pw, c.confirm) IN
         /\ dbFile' = IF r = "ok" THEN c.pw ELSE dbFile
         /\ chCalls' = (chCalls \ {c}) \cup {[c EXCEPT !.resp = r]}
         /\ lastChange' = [ok |-> r = "ok", old |-> dbFile, pw |-> c.pw,
                           err |-> IF r = "ok" THEN "" ELSE r]
    /\ UNCHANGED <<chPassword, chConfirm, chStrength, chLoading, chError,
                   uploadEvents>>

EmitsUploadAlways(ok) ==
    TRUE

\* appWindow.emit("upload") is in the try block after the await of
\* change_password: it runs when the command was fulfilled.
EmitsUpload(ok) ==
    ok

\* change_password is fulfilled: the upload event is emitted, the error and
\* both inputs are cleared and the success dialog opens.
ChangeFulfilled(c) ==
    /\ c.resp = "ok"
    /\ uploadEvents' = IF EmitsUpload(TRUE) THEN uploadEvents + 1
                       ELSE uploadEvents
    /\ chError' = ""
    /\ chPassword' = ""
    /\ chConfirm' = ""
    /\ chCalls' = (chCalls \ {c}) \cup {[c EXCEPT !.resp = "message"]}
    /\ UNCHANGED <<dbFile, chStrength, chLoading, lastChange>>

\* The dialog is closed: finally setLoading(false).
ChangeMessageClosed(c) ==
    /\ c.resp = "message"
    /\ chLoading' = FALSE
    /\ chCalls' = chCalls \ {c}
    /\ UNCHANGED <<dbFile, chPassword, chConfirm, chStrength, chError,
                   uploadEvents, lastChange>>

ChangeCatchQuiet(e) ==
    chError

\* catch (e) { setError(e as string) }
ChangeCatch(e) ==
    e

\* change_password is rejected: catch, then finally setLoading(false).
ChangeRejected(c) ==
    /\ c.resp \notin {"sent", "ok", "message"}
    /\ chError' = ChangeCatch(c.resp)
    /\ chLoading' = FALSE
    /\ chCalls' = chCalls \ {c}
    /\ uploadEvents' = IF EmitsUpload(FALSE) THEN uploadEvents + 1
                       ELSE uploadEvents
    /\ UNCHANGED <<dbFile, chPassword, chConfirm, chStrength, lastChange>>

IdleChange ==
    /\ chPassword = ""
    /\ chConfirm = ""
    /\ chStrength = 0
    /\ chLoading = FALSE
    /\ chError = ""
    /\ chCalls = {}
    /\ uploadEvents = 0
    /\ lastChange = NoChange

\* The vault is unlocked under the master password "p" and nothing of the
\* register and login pages is in progress.
UnlockedAuth ==
    /\ dbFile = "p"
    /\ session = TRUE
    /\ window = "Main"
    /\ loginPassword = ""
    /\ loginLoading = FALSE
    /\ loginError = ""
    /\ loginCalls = {}
    /\ regInput = ""
    /\ regConfirmInput = ""
    /\ regPassword = "undefined"
    /\ regConfirmPassword = "undefined"
    /\ regError = ""
    /\ registerCalls = {}
    /\ startOver = "idle"
    /\ lastAuth = [op |-> "login", ok |-> TRUE, pw |-> "p"]

NextChange ==
    \/ \E p \in ChangeInputs : ChangePasswordInput(p) /\ UNCHANGED notChangeVars
    \/ \E p \in ChangeInputs : ChangeConfirmInput(p) /\ UNCHANGED notChangeVars
    \/ ChangeSubmit /\ UNCHANGED notChangeVars
    \/ \E c \in chCalls : BackendChangePassword(c) /\ UNCHANGED notChangeVars
    \/ \E c \in chCalls : ChangeFulfilled(c) /\ UNCHANGED notChangeVars
    \/ \E c \in chCalls : ChangeMessageClosed(c) /\ UNCHANGED notChangeVars
    \/ \E c \in chCalls : ChangeRejected(c) /\ UNCHANGED notChangeVars

\* ------------------------------------------------------------------------
\* Main: the record list, its context menu and delete_record
\* ------------------------------------------------------------------------
\* The id of the record a list item stands for.
RecordId(item) ==
    IF item = "r1" THEN 1 ELSE 2

\* get_all_records: one item for each stored record.
AllRecordItems(records) ==
    {item \in MainRecords : \E r \in records : r.id = RecordId(item)}

\* delete_record(record): NotFound for an id that is not stored.
DeleteRecordResult(records, id) ==
    IF \E r \in records : r.id = id THEN "ok" ELSE "NotFound"

\* The record rows after delete_record.
DeleteRecordRecords(records, id) ==
    {r \in records : r.id # id}

\* The content rows after delete_record: the rows of the record go with it.
DeleteRecordContent(db, id) ==
    {r \in db : r.record # id}

\* Every call that may end in a refetch of the cloud resource has a call
\* number left.
RoomForCall ==
    Cardinality(cloudCalls) + Cardinality(recordCalls) <= MaxCalls

FreshListCall ==
    IF listCalls = {} THEN 1
    ELSE 1 + (CHOOSE n \in {c.n : c \in listCalls} :
                 \A c \in listCalls : c.n <= n)

FreshRecordCall ==
    CHOOSE n \in 1..(MaxCalls + 2) : n \notin {c.n : c \in recordCalls}

\* refetchAll(): both list resources run their fetchers again; the list is
\* under <Suspense> and gives way to the fallback while allRecords is pending.
RefetchAll ==
    /\ listCalls' = listCalls
         \cup {[n |-> FreshListCall, resp |-> "sent", result |-> {}]}
    /\ listPr' = FreshListCall
    /\ allRecords' = "loading"
    /\ compromisedPending' = compromisedPending + 1

\* The back-end answers get_all_records.
BackendGetAllRecords(c) ==
    /\ c.resp = "sent"
    /\ listCalls' = (listCalls \ {c})
         \cup {[c EXCEPT !.resp = "data", !.result = AllRecordItems(dbRecords)]}
    /\ UNCHANGED <<mainVars, dbRecords, dbContent, shownRecords, listPr,
                   compromisedPending, menu, recordCalls>>

\* get_all_records settles: the resource takes the list if it still waits
\* for this call.
GetAllRecordsReturn(c) ==
    /\ c.resp = "data"
    /\ listCalls' = listCalls \ {c}
    /\ IF c.n = listPr
       THEN /\ shownRecords' = c.result
            /\ listPr' = 0
            /\ allRecords' = "ready"
       ELSE UNCHANGED <<shownRecords, listPr, allRecords>>
    /\ UNCHANGED <<selected, cloudCalls, cloudPr, cloudState, cloudValue,
                   dbRecords, dbContent, compromisedPending, menu, recordCalls>>

\* get_compromised_records settles.
CompromisedReturn ==
    /\ compromisedPending > 0
    /\ compromisedPending' = compromisedPending - 1
    /\ UNCHANGED <<mainVars, dbRecords, dbContent, shownRecords, listCalls,
                   listPr, menu, recordCalls>>

\* Click on an item of the list.
ListedRecordClick(item) ==
    /\ menu = "none"
    /\ item \in shownRecords
    /\ RoomForCall
    /\ RecordClick(item)
    /\ UNCHANGED <<dbRecords, dbContent, recordsVars>>

\* onContextMenu of an item: setSelected(item), then the menu opens.
ContextMenu(item) ==
    /\ menu = "none"
    /\ allRecords = "ready"
    /\ item \in shownRecords
    /\ RoomForCall
    /\ Cardinality(cloudCalls) <= MaxCalls
    /\ SetSelected(item)
    /\ menu' = item
    /\ UNCHANGED <<dbRecords, dbContent, shownRecords, listCalls, listPr,
                   compromisedPending, recordCalls>>

\* The menu is closed without a choice.
MenuDismiss ==
    /\ menu # "none"
    /\ menu' = "none"
    /\ UNCHANGED <<mainVars, dbRecords, dbContent, shownRecords, listCalls,
                   listPr, compromisedPending, recordCalls>>

\* "Delete" of the menu: invoke("delete_record", {record: payload.record}).
MenuDelete ==
    /\ menu # "none"
    /\ RoomForCall
    /\ recordCalls' = recordCalls
         \cup {[n |-> FreshRecordCall, item |-> menu, resp |-> "sent"]}
    /\ menu' = "none"
    /\ UNCHANGED <<mainVars, dbRecords, dbContent, shownRecords, listCalls,
                   listPr, compromisedPending>>

\* The store handles one delete_record call.
BackendDeleteRecord(c) ==
    /\ c.resp = "sent"
    /\ LET id == RecordId(c.item)
           r == DeleteRecordResult(dbRecords, id) IN
         /\ dbRecords' = IF r = "ok" THEN DeleteRecordRecords(dbRecords, id)
                         ELSE dbRecords
         /\ dbContent' = IF r = "ok" THEN DeleteRecordContent(dbContent, id)
                         ELSE dbContent
         /\ recordCalls' = (recordCalls \ {c}) \cup {[c EXCEPT !.resp = r]}
    /\ UNCHANGED <<mainVars, shownRecords, listCalls, listPr,
                   compromisedPending, menu>>

SelectionAfterDeleteKept(sel) ==
    sel

\* .then(() => { refetchAll(); setSelected(undefined) })
SelectionAfterDelete(sel) ==
    "undefined"

\* delete_record is fulfilled: refetchAll() and setSelected(undefined); a
\* RecordDetail unmounted by it calls uploadToCloud in its onCleanup.
DeleteRecordFulfilled(c) ==
    /\ c.resp = "ok"
    /\ recordCalls' = recordCalls \ {c}
    /\ RefetchAll
    /\ selected' = SelectionAfterDelete(selected)
    /\ IF DetailMounted(selected) /\ ~DetailMounted(selected')
       THEN CloudFetch
       ELSE UNCHANGED <<cloudCalls, cloudPr, cloudState, cloudValue>>
    /\ UNCHANGED <<dbRecords, dbContent, shownRecords, menu>>

\* delete_record is rejected: the handler has no catch and ends.
DeleteRecordRejected(c) ==
    /\ c.resp = "NotFound"
    /\ recordCalls' = recordCalls \ {c}
    /\ UNCHANGED <<mainVars, dbRecords, dbContent, shownRecords, listCalls,
                   listPr, compromisedPending, menu>>

IdleRecords ==
    /\ shownRecords = {}
    /\ listCalls = {}
    /\ listPr = 0
    /\ compromisedPending = 0
    /\ menu = "none"
    /\ recordCalls = {}

\* Main has just been mounted on a vault of two records with one content
\* each: its three resources have started their first fetch.
InitRecordsOwn ==
    /\ InitMainOwn
    /\ shownRecords = {}
    /\ listCalls = {[n |-> 1, resp |-> "sent", result |-> {}]}
    /\ listPr = 1
    /\ compromisedPending = 1
    /\ menu = "none"
    /\ recordCalls = {}
    /\ dbRecords = {[id |-> 1, title |-> "t"], [id |-> 2, title |-> "t"]}
    /\ dbContent = {Row(1, Content(1, "a", 0, TRUE, "Password", 1)),
                    Row(2, Content(2, "a", 0, TRUE, "Password", 2))}
    /\ allContent = <<>> /\ edit = FALSE /\ dialogs = {} /\ deleteCalls = {}
    /\ loaded = <<>>
    /\ record = [id |-> 0, title |-> ""]
    /\ saveCalls = {} /\ saveMessage = "" /\ lastSave = NoSave
    /\ assignedId = 0

\* History of the vault against the cloud copy: set when delete_record removes
\* a record, cleared when save_to_cloud is invoked or carried out afterwards.
UnsyncedStep ==
    unsynced' = IF cloudCalls' \ cloudCalls # {} THEN FALSE
                ELSE IF dbRecords' # dbRecords THEN TRUE
                ELSE unsynced

NextRecords ==
    \/ \E c \in listCalls : BackendGetAllRecords(c)
         /\ UNCHANGED notRecordsVars /\ UnsyncedStep
    \/ \E c \in listCalls : GetAllRecordsReturn(c)
         /\ UNCHANGED notRecordsVars /\ UnsyncedStep
    \/ CompromisedReturn
         /\ UNCHANGED notRecordsVars /\ UnsyncedStep
    \/ \E item \in MainRecords : ListedRecordClick(item)
         /\ UNCHANGED notRecordsVars /\ UnsyncedStep
    \/ menu = "none" /\ RoomForCall /\ CloudClick
         /\ UNCHANGED <<dbRecords, dbContent, recordsVars, notRecordsVars>>
         /\ UnsyncedStep
    \/ menu = "none" /\ RoomForCall /\ BackgroundClick
         /\ UNCHANGED <<dbRecords, dbContent, recordsVars, notRecordsVars>>
         /\ UnsyncedStep
    \/ \E item \in MainRecords : ContextMenu(item)
         /\ UNCHANGED notRecordsVars /\ UnsyncedStep
    \/ MenuDismiss
         /\ UNCHANGED notRecordsVars /\ UnsyncedStep
    \/ MenuDelete
         /\ UNCHANGED notRecordsVars /\ UnsyncedStep
    \/ \E c \in recordCalls : BackendDeleteRecord(c)
         /\ UNCHANGED notRecordsVars /\ UnsyncedStep
    \/ \E c \in recordCalls : DeleteRecordFulfilled(c)
         /\ UNCHANGED notRecordsVars /\ UnsyncedStep
    \/ \E c \in recordCalls : DeleteRecordRejected(c)
         /\ UNCHANGED notRecordsVars /\ UnsyncedStep
    \/ \E c \in cloudCalls, ok \in BOOLEAN : BackendSaveToCloud(c, ok)
         /\ UNCHANGED <<dbRecords, dbContent, recordsVars, notRecordsVars>>
         /\ UnsyncedStep
    \/ \E c \in cloudCalls : SaveToCloudReturn(c)
         /\ UNCHANGED <<dbRecords, dbContent, recordsVars, notRecordsVars>>
         /\ UnsyncedStep

\* ------------------------------------------------------------------------
\* Start over, with the answer of its dialog kept
\* ------------------------------------------------------------------------
\* Click on start_over: the confirm dialog opens, not yet answered.
StartOverAsk ==
    /\ StartOverClick
    /\ dialogResult' = "none"

\* The dialog returns result.
StartOverAnswer(result) ==
    /\ StartOverConfirm(result)
    /\ dialogResult' = IF result THEN "true" ELSE "false"

\* The back-end runs the start_over call.
StartOverRun ==
    /\ BackendStartOver
    /\ dialogResult' = "ran"

IdleStartOver ==
    dialogResult = "none"

NextStartOver ==
    \/ InitializeWindowResolve /\ UNCHANGED notAuthVars
    \/ AppRestart /\ UNCHANGED notAuthVars
    \/ \E p \in Passwords : RegisterInput(p) /\ UNCHANGED notAuthVars
    \/ \E p \in Passwords : RegisterConfirmInput(p) /\ UNCHANGED notAuthVars
    \/ RegisterSubmit /\ UNCHANGED notAuthVars
    \/ \E c \in registerCalls : BackendRegister(c) /\ UNCHANGED notAuthVars
    \/ \E c \in registerCalls : RegisterReturn(c) /\ UNCHANGED notAuthVars
    \/ \E p \in Passwords : LoginInput(p) /\ UNCHANGED notAuthVars
    \/ LoginSubmit /\ UNCHANGED notAuthVars
    \/ \E c \in loginCalls : BackendLogin(c) /\ UNCHANGED notAuthVars
    \/ \E c \in loginCalls : LoginReturn(c) /\ UNCHANGED notAuthVars
    \/ StartOverAsk /\ UNCHANGED notStartOverVars
    \/ \E result \in BOOLEAN : StartOverAnswer(result) /\ UNCHANGED notStartOverVars
    \/ StartOverRun /\ UNCHANGED notStartOverVars

IdleSync ==
    unsynced = FALSE

\* ------------------------------------------------------------------------
\* ContentValue of a Password: the breach check
\* ------------------------------------------------------------------------
\* "Once per 24 hours, passwords are checked".
Day ==
    24

MaxClock ==
    25

\* The SHA-1 digest of the stored password, shortened to eight hex digits.
StoredPassword ==
    <<"h", "u", "n", "t", "e", "r", "2">>

PasswordHash ==
    <<"F", "3", "B", "B", "B", "D", "6", "6">>

PrefixLen ==
    5

\* What a remote lookup transmits: the first digits of the digest.
HashPrefix(h) ==
    SubSeq(h, 1, PrefixLen)

LookupDueAlways(hour, last) ==
    TRUE

\* A remote lookup is made at most once per 24 hours per password.
LookupDue(hour, last) ==
    last < 0 \/ hour - last >= Day

\* The verdict of a remote lookup; a network failure degrades to "Ok".
LookupOutcome(net) ==
    IF net = "pwned" THEN "Exposed" ELSE "Ok"

NoCheck ==
    [net |-> "none", resp |-> "none"]

FreshCheckCall ==
    CHOOSE n \in 1..(MaxCalls + 2) : n \notin {c.n : c \in checkCalls}

\* An id that is undefined: the content was added in the editor.
UndefinedId ==
    -1

\* case "Password": if (content.id !== undefined && content.id !== 0)
InvokesCheck(kind, id) ==
    kind = "Password" /\ id # UndefinedId /\ id # 0

CheckErrorTextLoud(value) ==
    IF value = "Common" THEN "Too common"
    ELSE "Exposed in a data breach.\nsource: haveibeenpwned.com"

\* .then((value) => ...): the text set for the answer of the check.
CheckErrorText(value) ==
    IF value = "Common" THEN "Too common"
    ELSE IF value = "Exposed"
         THEN "Exposed in a data breach.\nsource: haveibeenpwned.com"
         ELSE ""

\* A ContentValue of a Password is created (the record's content is listed
\* again): its signals are new, and for a stored content
\* check_password_from_database is invoked without being awaited.
ViewCreate(id) ==
    /\ Cardinality(checkCalls) <= MaxCalls
    /\ pwError' = ""
    /\ lastCheck' = NoCheck
    /\ IF InvokesCheck("Password", id)
       THEN /\ checkCalls' = checkCalls \cup
                 {[n |-> FreshCheckCall, resp |-> "sent", net |-> "none"]}
            /\ checkPr' = FreshCheckCall
       ELSE /\ checkPr' = 0
            /\ UNCHANGED checkCalls
    /\ UNCHANGED <<clock, pwCommon, lookedUpAt, verdict, lookups>>

\* check_password: the row is read (NotFound for a stale id), the common list
\* is consulted, then the remote service if a lookup is due, else the verdict
\* of the last lookup is returned.
BackendCheckPassword(c, found) ==
    /\ c.resp = "sent"
    /\ IF ~found
       THEN /\ checkCalls' = (checkCalls \ {c})
                 \cup {[c EXCEPT !.resp = "NotFound"]}
            /\ UNCHANGED <<lookedUpAt, lookups>>
       ELSE IF pwCommon
       THEN /\ checkCalls' = (checkCalls \ {c})
                 \cup {[c EXCEPT !.resp = "Common"]}
            /\ UNCHANGED <<lookedUpAt, lookups>>
       ELSE IF LookupDue(clock, lookedUpAt)
       THEN /\ lookups' = lookups \cup
                 {[t |-> clock, sent |-> HashPrefix(PasswordHash)]}
            /\ lookedUpAt' = clock
            /\ checkCalls' = (checkCalls \ {c})
                 \cup {[c EXCEPT !.resp = "lookup"]}
       ELSE /\ checkCalls' = (checkCalls \ {c})
                 \cup {[c EXCEPT !.resp = verdict]}
            /\ UNCHANGED <<lookedUpAt, lookups>>
    /\ UNCHANGED <<clock, pwCommon, verdict, checkPr, pwError, lastCheck>>

\* The remote service answers, or the request fails.
BackendLookupEnd(c, net) ==
    /\ c.resp = "lookup"
    /\ checkCalls' = (checkCalls \ {c})
         \cup {[c EXCEPT !.resp = LookupOutcome(net), !.net = net]}
    /\ verdict' = IF net = "failed" THEN verdict ELSE LookupOutcome(net)
    /\ UNCHANGED <<clock, pwCommon, lookedUpAt, lookups, checkPr, pwError,
                   lastCheck>>

\* .then(...): the answer sets the error signal of the view that asked.
CheckFulfilled(c) ==
    /\ c.resp \in {"Ok", "Common", "Exposed"}
    /\ checkCalls' = checkCalls \ {c}
    /\ IF c.n = checkPr
       THEN /\ pwError' = CheckErrorText(c.resp)
            /\ lastCheck' = [net |-> c.net, resp |-> c.resp]
       ELSE UNCHANGED <<pwError, lastCheck>>
    /\ UNCHANGED <<clock, pwCommon, lookedUpAt, verdict, lookups, checkPr>>

\* .catch(_ => _): a rejection is dropped.
CheckRejected(c) ==
    /\ c.resp = "NotFound"
    /\ checkCalls' = checkCalls \ {c}
    /\ UNCHANGED <<clock, pwCommon, lookedUpAt, verdict, lookups, checkPr,
                   pwError, lastCheck>>

\* An hour passes.
Tick ==
    /\ clock < MaxClock
    /\ clock' = clock + 1
    /\ UNCHANGED <<pwCommon, lookedUpAt, verdict, lookups, checkCalls, checkPr,
                   pwError, lastCheck>>

IdleCheck ==
    /\ clock = 0
    /\ pwCommon = FALSE
    /\ lookedUpAt = -1
    /\ verdict = "Ok"
    /\ lookups = {}
    /\ checkCalls = {}
    /\ checkPr = 0
    /\ pwError = ""
    /\ lastCheck = NoCheck

\* The record detail has just listed a stored Password: its ContentValue is
\* created and has invoked the check; no lookup was made yet.
InitCheckOwn ==
    /\ clock = 0
    /\ pwCommon \in BOOLEAN
    /\ lookedUpAt = -1
    /\ verdict = "Ok"
    /\ lookups = {}
    /\ checkCalls = {[n |-> 1, resp |-> "sent", net |-> "none"]}
    /\ checkPr = 1
    /\ pwError = ""
    /\ lastCheck = NoCheck

NextCheck ==
    \/ \E id \in {UndefinedId, 0, 1} : ViewCreate(id) /\ UNCHANGED notCheckVars
    \/ \E c \in checkCalls, found \in BOOLEAN :
         BackendCheckPassword(c, found) /\ UNCHANGED notCheckVars
    \/ \E c \in checkCalls, net \in {"pwned", "clean", "failed"} :
         BackendLookupEnd(c, net) /\ UNCHANGED notCheckVars
    \/ \E c \in checkCalls : CheckFulfilled(c) /\ UNCHANGED notCheckVars
    \/ \E c \in checkCalls : CheckRejected(c) /\ UNCHANGED notCheckVars
    \/ Tick /\ UNCHANGED notCheckVars

\* ------------------------------------------------------------------------
\* ContentValue of a TOTPSecret: the polled code
\* ------------------------------------------------------------------------
\* The length of a window in seconds.
TotpStep ==
    30

MaxNow ==
    32

NoAnswer ==
    [at |-> -1, code |-> -1, left |-> -1]

\* The window a time falls in.
TotpWindow(t) ==
    t \div TotpStep

\* The code of a time: one per window (the counter stands for its digits).
TotpCode(t) ==
    TotpWindow(t)

SecondsElapsed(t) ==
    t % TotpStep

\* The seconds left of the window of a time.
SecondsRemaining(t) ==
    TotpStep - (t % TotpStep)

FreshTotpCall ==
    CHOOSE n \in 1..(MaxCalls + 2) : n \notin {c.n : c \in totpCalls}

\* setInterval(..., 1000): a second after the last firing (or the creation)
\* get_totp_code is invoked again.
IntervalFires ==
    /\ ~polled
    /\ Cardinality(totpCalls) <= MaxCalls
    /\ polled' = TRUE
    /\ totpCalls' = totpCalls \cup
         {[n |-> FreshTotpCall, resp |-> "sent", code |-> -1, left |-> -1]}
    /\ UNCHANGED <<now, totp, prevAnswer, lastAnswer>>

\* A second passes, once the interval has fired in this one.
SecondPasses ==
    /\ polled
    /\ now < MaxNow
    /\ now' = now + 1
    /\ polled' = FALSE
    /\ UNCHANGED <<totpCalls, totp, prevAnswer, lastAnswer>>

\* get_totp_code: the code of the current window and the seconds left of it,
\* computed at each call.
BackendGetTotpCode(c) ==
    /\ c.resp = "sent"
    /\ totpCalls' = (totpCalls \ {c})
         \cup {[c EXCEPT !.resp = "answered", !.code = TotpCode(now),
                         !.left = SecondsRemaining(now)]}
    /\ prevAnswer' = lastAnswer
    /\ lastAnswer' = [at |-> now, code |-> TotpCode(now),
                      left |-> SecondsRemaining(now)]
    /\ UNCHANGED <<now, polled, totp>>

\* .then((value) => setTotp(value)) and setTotp(await invoke(...))
GetTotpCodeReturn(c) ==
    /\ c.resp = "answered"
    /\ totp' = <<c.code, c.left>>
    /\ totpCalls' = totpCalls \ {c}
    /\ UNCHANGED <<now, polled, prevAnswer, lastAnswer>>

IdleTotp ==
    /\ now = 0
    /\ polled = FALSE
    /\ totpCalls = {}
    /\ totp = <<-1, 0>>
    /\ prevAnswer = NoAnswer
    /\ lastAnswer = NoAnswer

\* A ContentValue of a stored TOTPSecret has just been created, in one of the
\* last seconds of a window: createSignal(["", 0]), get_totp_code invoked,
\* interval set.
InitTotpOwn ==
    /\ now \in (TotpStep - 3)..(TotpStep - 1)
    /\ polled = TRUE
    /\ totpCalls = {[n |-> 1, resp |-> "sent", code |-> -1, left |-> -1]}
    /\ totp = <<-1, 0>>
    /\ prevAnswer = NoAnswer
    /\ lastAnswer = NoAnswer

NextTotp ==
    \/ IntervalFires /\ UNCHANGED notTotpVars
    \/ SecondPasses /\ UNCHANGED notTotpVars
    \/ \E c \in totpCalls : BackendGetTotpCode(c) /\ UNCHANGED notTotpVars
    \/ \E c \in totpCalls : GetTotpCodeReturn(c) /\ UNCHANGED notTotpVars

\* ------------------------------------------------------------------------
\* ContentValue of a Password in edit mode: the password generator
\* ------------------------------------------------------------------------
\* createSignal(16)
InitialLength ==
    16

\* <input type="range" min={8} ...>
SliderMin ==
    8

\* The floor of generate_password's length.
MinLength ==
    1

\* The positions the slider is moved to.
GenLengths ==
    {SliderMin, InitialLength}

ClassNames ==
    {"numbers", "uppercase_letters", "lowercase_letters", "symbols"}

\* What is typed into the value input.
TypedValues ==
    {"weak", ""}

\* validate("Password", value): the error, "" for none; a password is not
\* empty.
ValidatePassword(v) ==
    IF v = "" THEN "Value can not be empty" ELSE ""

\* generate_password(length, numbers, uppercase_letters, lowercase_letters,
\* symbols): a password, or InvalidParameters.
GeneratePasswordResult(length, flags) ==
    IF length < MinLength \/ \A k \in ClassNames : ~flags[k]
    THEN "InvalidParameters" ELSE "generated"

\* onInput of the range input: setPasswordLength(...)
SetPasswordLength(l) ==
    /\ passwordLength' = l
    /\ UNCHANGED <<classFlags, genValue, genShown, genValidity, genStrength,
                   genError, genCalls>>

\* onInput of a checkbox: setNumbers(...) and the like.
SetClassFlag(k, checked) ==
    /\ classFlags' = [classFlags EXCEPT ![k] = checked]
    /\ UNCHANGED <<passwordLength, genValue, genShown, genValidity,
                   genStrength, genError, genCalls>>

\* onInput of the value input: content.value is set and validated; an error
\* becomes the custom validity, else validity and error are cleared and the
\* strength is computed.
GenValueInput(v) ==
    /\ genValue' = v
    /\ IF ValidatePassword(v) # ""
       THEN /\ genValidity' = ValidatePassword(v)
            /\ UNCHANGED <<genError, genStrength>>
       ELSE /\ genValidity' = ""
            /\ genError' = ""
            /\ genStrength' = PasswordStrength(v)
    /\ UNCHANGED <<passwordLength, classFlags, genShown, genCalls>>

\* Click on Generate, no earlier run of the handler pending:
\* generate_password is invoked with the signals as they are.
GenerateClick ==
    /\ genCalls = {}
    /\ genCalls' = genCalls \cup
         {[length |-> passwordLength,
           flags |-> classFlags, resp |-> "sent"]}
    /\ UNCHANGED <<passwordLength, classFlags, genValue, genShown,
                   genValidity, genStrength, genError>>

BackendGeneratePassword(c) ==
    /\ c.resp = "sent"
    /\ genCalls' = (genCalls \ {c})
         \cup {[c EXCEPT !.resp = GeneratePasswordResult(c.length, c.flags)]}
    /\ UNCHANGED <<passwordLength, classFlags, genValue, genShown,
                   genValidity, genStrength, genError>>

\* generate_password is fulfilled: content.value = the password;
\* setValue(content.value); password_strength is invoked for it.
GenerateFulfilled(c) ==
    /\ c.resp = "generated"
    /\ genValue' = c.resp
    /\ genShown' = genValue'
    /\ genCalls' = (genCalls \ {c}) \cup {[c EXCEPT !.resp = "strength"]}
    /\ UNCHANGED <<passwordLength, classFlags, genValidity, genStrength,
                   genError>>

\* password_strength answers: setPasswordStrength(...); setError("");
\* setCustomValidity("") on the value input.
GenerateStrengthReturn(c) ==
    /\ c.resp = "strength"
    /\ genStrength' = PasswordStrength("generated")
    /\ genError' = ""
    /\ genValidity' = ""
    /\ genCalls' = genCalls \ {c}
    /\ UNCHANGED <<passwordLength, classFlags, genValue, genShown>>

GenerateRejectedAssigning(c) ==
    /\ c.resp = "InvalidParameters"
    /\ genValue' = c.resp
    /\ genError' = c.resp
    /\ genCalls' = genCalls \ {c}
    /\ UNCHANGED <<passwordLength, classFlags, genShown, genValidity,
                   genStrength>>

\* generate_password is rejected: the await throws before content.value is
\* assigned; catch (e) { setError(e) }
GenerateRejected(c) ==
    /\ c.resp = "InvalidParameters"
    /\ genError' = c.resp
    /\ genCalls' = genCalls \ {c}
    /\ UNCHANGED <<passwordLength, classFlags, genValue, genShown,
                   genValidity, genStrength>>

IdleGenerate ==
    /\ passwordLength = InitialLength
    /\ classFlags = [k \in ClassNames |-> TRUE]
    /\ genValue = ""
    /\ genShown = ""
    /\ genValidity = ""
    /\ genStrength = 0
    /\ genError = ""
    /\ genCalls = {}

\* The ContentValue of a stored Password in edit mode, its plaintext fetched
\* and scored.
InitGenerateOwn ==
    /\ passwordLength = InitialLength
    /\ classFlags = [k \in ClassNames |-> TRUE]
    /\ genValue = "plaintext"
    /\ genShown = "plaintext"
    /\ genValidity = ""
    /\ genStrength = PasswordStrength("plaintext")
    /\ genError = ""
    /\ genCalls = {}

NextGenerate ==
    \/ \E l \in GenLengths : SetPasswordLength(l) /\ UNCHANGED notGenerateVars
    \/ \E k \in ClassNames, checked \in BOOLEAN :
         SetClassFlag(k, checked) /\ UNCHANGED notGenerateVars
    \/ \E v \in TypedValues : GenValueInput(v) /\ UNCHANGED notGenerateVars
    \/ GenerateClick /\ UNCHANGED notGenerateVars
    \/ \E c \in genCalls : BackendGeneratePassword(c) /\ UNCHANGED notGenerateVars
    \/ \E c \in genCalls : GenerateFulfilled(c) /\ UNCHANGED notGenerateVars
    \/ \E c \in genCalls : GenerateStrengthReturn(c) /\ UNCHANGED notGenerateVars
    \/ \E c \in genCalls : GenerateRejected(c) /\ UNCHANGED notGenerateVars

\* ------------------------------------------------------------------------
\* ContentValue in the record form: typing, validate, the value resource and
\* the submission of the form
\* ------------------------------------------------------------------------
FieldKinds ==
    {"Number", "Password", "TOTPSecret"}

Digits ==
    {"0", "1", "2", "3", "4", "5", "6", "7", "8", "9"}

Base32Alphabet ==
    {"A", "B", "C", "D", "E", "F", "G", "H", "I", "J", "K", "L", "M", "N", "O",
     "P", "Q", "R", "S", "T", "U", "V", "W", "X", "Y", "Z", "2", "3", "4", "5",
     "6", "7"}

\* "*******************"
MaskChars ==
    [i \in 1..Len(<<1, 2, 3, 4, 5, 6, 7, 8, 9, 10, 11, 12, 13, 14, 15, 16, 17,
                    18, 19>>) |-> "*"]

\* What the store holds for the field, by kind.
StoredChars(kind) ==
    IF kind = "Number" THEN <<"7">>
    ELSE IF kind = "Password" THEN <<"p", "w">>
    ELSE <<"M", "Z", "X", "W">>

\* What is typed into the value input.
TypedChars ==
    {<<"1", "2">>, <<"A", "B">>}

NoPayload ==
    [kind |-> "none", value |-> <<>>]

\* validate(kind, value): the message, "" for none.
Validate(kind, v) ==
    IF v = <<>> THEN "Value can not be empty"
    ELSE IF kind = "Number" /\ \E k \in DOMAIN v : v[k] \notin Digits
         THEN "Invalid number"
    ELSE IF kind = "TOTPSecret" /\ \E k \in DOMAIN v : v[k] \notin Base32Alphabet
         THEN "Invalid TOTP secret"
    ELSE ""

FreshValidateCall ==
    CHOOSE n \in 1..(MaxCalls + 2) : n \notin {c.n : c \in validateCalls}

FreshFetchCall ==
    CHOOSE n \in 1..(MaxCalls + 2) : n \notin {c.n : c \in fetchCalls}

\* The fetcher of the value resource runs for [e, false] on a stored content:
\* a sensitive kind invokes get_content_value in edit mode and is masked
\* outside it; any other kind keeps content.value.
FieldFetch(e) ==
    IF fKind \notin SensitiveKinds
    THEN UNCHANGED <<fValue, fLastInput, fetchCalls>>
    ELSE IF e
    THEN /\ fetchCalls' = fetchCalls \cup {[n |-> FreshFetchCall, resp |-> "sent"]}
         /\ UNCHANGED <<fValue, fLastInput>>
    ELSE /\ fValue' = MaskChars
         /\ fLastInput' = <<>>
         /\ UNCHANGED fetchCalls

\* The form is submitted in view mode: setEdit(!edit()).
FieldSubmitView ==
    /\ ~fEdit
    /\ fMessage = ""
    /\ ~fSaving
    /\ Cardinality(fetchCalls) < MaxCalls
    /\ fEdit' = TRUE
    /\ FieldFetch(TRUE)
    /\ UNCHANGED <<fKind, fValidity, validateCalls, fMessage, fSaving,
                   lastPayload>>

\* onInput of the value input, up to the await: content.value is set and
\* validate is invoked for it.
FieldInput(v) ==
    /\ fEdit
    /\ fMessage = ""
    /\ Cardinality(validateCalls) <= MaxCalls
    /\ fValue' = v
    /\ fLastInput' = v
    /\ validateCalls' = validateCalls \cup
         {[n |-> FreshValidateCall, value |-> v, resp |-> "sent", err |-> ""]}
    /\ UNCHANGED <<fKind, fEdit, fValidity, fetchCalls, fMessage, fSaving,
                   lastPayload>>

BackendValidate(c) ==
    /\ c.resp = "sent"
    /\ validateCalls' = (validateCalls \ {c})
         \cup {[c EXCEPT !.resp = "done", !.err = Validate(fKind, c.value)]}
    /\ UNCHANGED <<fKind, fEdit, fValue, fValidity, fLastInput, fetchCalls,
                   fMessage, fSaving, lastPayload>>

\* validate has answered: setCustomValidity(error), or setCustomValidity("")
\* for none, with the answer of this call.
ValidityOf(c) ==
    c.err

ValidateReturn(c) ==
    /\ c.resp = "done"
    /\ fValidity' = ValidityOf(c)
    /\ validateCalls' = validateCalls \ {c}
    /\ UNCHANGED <<fKind, fEdit, fValue, fLastInput, fetchCalls, fMessage,
                   fSaving, lastPayload>>

\* The browser submits the form only while no input of it is invalid.
FieldFormValid ==
    fValidity = ""

\* The form is submitted in edit mode: save_record is invoked with the
\* content as it is.
FieldSubmitEdit ==
    /\ fEdit
    /\ fMessage = ""
    /\ ~fSaving
    /\ FieldFormValid
    /\ fSaving' = TRUE
    /\ lastPayload' = [kind |-> fKind, value |-> fValue]
    /\ UNCHANGED <<fKind, fEdit, fValue, fValidity, fLastInput, validateCalls,
                   fetchCalls, fMessage>>

\* save_record has settled (and the dialog of a failure was closed):
\* refresh(); setEdit(!edit()); the value resource runs for view mode.
FieldSaveSettled ==
    /\ fSaving
    /\ fSaving' = FALSE
    /\ fEdit' = FALSE
    /\ FieldFetch(FALSE)
    /\ UNCHANGED <<fKind, fValidity, validateCalls, fMessage, lastPayload>>

BackendFieldValue(c, ok) ==
    /\ c.resp = "sent"
    /\ fetchCalls' = (fetchCalls \ {c})
         \cup {[c EXCEPT !.resp = IF ok THEN "plaintext" ELSE "NotFound"]}
    /\ UNCHANGED <<fKind, fEdit, fValue, fValidity, fLastInput, validateCalls,
                   fMessage, fSaving, lastPayload>>

\* content.value = await invoke("get_content_value", ...)
FieldFetchFulfilled(c) ==
    /\ c.resp = "plaintext"
    /\ fValue' = StoredChars(fKind)
    /\ fLastInput' = <<>>
    /\ fetchCalls' = fetchCalls \ {c}
    /\ UNCHANGED <<fKind, fEdit, fValidity, validateCalls, fMessage, fSaving,
                   lastPayload>>

\* catch (e) { await message(...) }: content.value stays as it is.
FieldFetchRejected(c) ==
    /\ c.resp = "NotFound"
    /\ fMessage = ""
    /\ fMessage' = c.resp
    /\ fetchCalls' = fetchCalls \ {c}
    /\ UNCHANGED <<fKind, fEdit, fValue, fValidity, fLastInput, validateCalls,
                   fSaving, lastPayload>>

FieldMessageClosed ==
    /\ fMessage # ""
    /\ fMessage' = ""
    /\ UNCHANGED <<fKind, fEdit, fValue, fValidity, fLastInput, validateCalls,
                   fetchCalls, fSaving, lastPayload>>

IdleField ==
    /\ fKind = "Number"
    /\ fEdit = FALSE
    /\ fValue = <<>>
    /\ fValidity = ""
    /\ fLastInput = <<>>
    /\ validateCalls = {}
    /\ fetchCalls = {}
    /\ fMessage = ""
    /\ fSaving = FALSE
    /\ lastPayload = NoPayload

\* The record detail lists a stored content in view mode: a sensitive kind
\* is masked, any other kind carries its stored value.
InitFieldOwn ==
    /\ fKind \in FieldKinds
    /\ fEdit = FALSE
    /\ fValue = IF fKind \in SensitiveKinds THEN MaskChars ELSE StoredChars(fKind)
    /\ fValidity = ""
    /\ fLastInput = <<>>
    /\ validateCalls = {}
    /\ fetchCalls = {}
    /\ fMessage = ""
    /\ fSaving = FALSE
    /\ lastPayload = NoPayload

NextField ==
    \/ FieldSubmitView /\ UNCHANGED notFieldVars
    \/ \E v \in TypedChars : FieldInput(v) /\ UNCHANGED notFieldVars
    \/ \E c \in validateCalls : BackendValidate(c) /\ UNCHANGED notFieldVars
    \/ \E c \in validateCalls : ValidateReturn(c) /\ UNCHANGED notFieldVars
    \/ FieldSubmitEdit /\ UNCHANGED notFieldVars
    \/ FieldSaveSettled /\ UNCHANGED notFieldVars
    \/ \E c \in fetchCalls, ok \in BOOLEAN :
         BackendFieldValue(c, ok) /\ UNCHANGED notFieldVars
    \/ \E c \in fetchCalls : FieldFetchFulfilled(c) /\ UNCHANGED notFieldVars
    \/ \E c \in fetchCalls : FieldFetchRejected(c) /\ UNCHANGED notFieldVars
    \/ FieldMessageClosed /\ UNCHANGED notFieldVars

\* ------------------------------------------------------------------------
\* PasswordStrengthIndicator: the bar colour and the label of a strength
\* ------------------------------------------------------------------------

\* The scores the indicator is given: password_strength answers 0..100.
Strengths == 0 .. 100

\* color(): the class of the bar.
Color(s) ==
    IF s < 40 THEN "bg-red-500"
    ELSE IF s < 60 THEN "bg-orange-500"
    ELSE IF s < 90 THEN "bg-yellow-500"
    ELSE "bg-green-500"

\* inWords() without its first branch.
InWordsNoPlaceholder(s) ==
    IF s < 20 THEN "Very dangerous"
    ELSE IF s < 40 THEN "Dangerous"
    ELSE IF s < 60 THEN "Very weak"
    ELSE IF s < 80 THEN "Weak"
    ELSE IF s < 90 THEN "Good"
    ELSE IF s < 95 THEN "Strong"
    ELSE IF s < 99 THEN "Very strong"
    ELSE "Invulnerable"

\* inWords(): the label under the bar.
InWords(s) ==
    IF s = 0 THEN "Password strength"
    ELSE IF s < 20 THEN "Very dangerous"
    ELSE IF s < 40 THEN "Dangerous"
    ELSE IF s < 60 THEN "Very weak"
    ELSE IF s < 80 THEN "Weak"
    ELSE IF s < 90 THEN "Good"
    ELSE IF s < 95 THEN "Strong"
    ELSE IF s < 99 THEN "Very strong"
    ELSE "Invulnerable"

\* The signal feeding the indicator is set to a new score (setPasswordStrength
\* with the answer of password_strength).
SetPasswordStrength(s) ==
    /\ s # strength
    /\ strength' = s

IdleIndicator ==
    strength = 0

\* createSignal(0)
InitIndicatorOwn ==
    strength = 0

NextIndicator ==
    \E s \in Strengths : SetPasswordStrength(s) /\ UNCHANGED notIndicatorVars

\* ------------------------------------------------------------------------
\* Main: the security-check indicator
\* ------------------------------------------------------------------------

\* The lists get_compromised_records may answer with (record ids).
CompromisedLists ==
    {<<>>, <<1>>, <<1, 2>>}

\* compromisedExists()
CompromisedExists ==
    ~compromisedLoading /\ compromisedRecords # "undefined"
        /\ Len(compromisedRecords) > 0

\* The second line of the indicator.
SecurityCheckText ==
    IF CompromisedExists THEN "A problem has been found" ELSE "Everything is fine"

\* The left column is under <Suspense>: the fallback replaces it while a
\* pending resource is read there, which is allRecords, and compromisedRecords
\* when filteredRecords() takes the compromised list.  compromisedExists()
\* reads compromisedRecords() only when loading is false.
IndicatorShown ==
    ~listLoading /\ ~(compromisedOnly /\ compromisedLoading)

FreshCompromisedCall ==
    CHOOSE n \in 1..(MaxCalls + 1) : n \notin {c.n : c \in compromisedCalls}

\* refetchAll(): both resources run their fetchers again.
SecurityRefetchAll ==
    /\ Cardinality(compromisedCalls) <= MaxCalls
    /\ compromisedCalls' = compromisedCalls
         \cup {[n |-> FreshCompromisedCall, resp |-> "sent", result |-> <<>>]}
    /\ compromisedPr' = FreshCompromisedCall
    /\ compromisedLoading' = TRUE
    /\ listLoading' = TRUE
    /\ UNCHANGED <<compromisedRecords, compromisedOnly>>

\* get_all_records settles.
SecurityListReturn ==
    /\ listLoading
    /\ listLoading' = FALSE
    /\ UNCHANGED <<compromisedRecords, compromisedLoading, compromisedOnly,
                   compromisedCalls, compromisedPr>>

\* The back-end answers get_compromised_records.
BackendGetCompromisedRecords(c, list) ==
    /\ c.resp = "sent"
    /\ compromisedCalls' = (compromisedCalls \ {c})
         \cup {[c EXCEPT !.resp = "data", !.result = list]}
    /\ UNCHANGED <<compromisedRecords, compromisedLoading, compromisedOnly,
                   compromisedPr, listLoading>>

\* get_compromised_records settles: the resource takes the list if it still
\* waits for this call.
GetCompromisedRecordsReturn(c) ==
    /\ c.resp = "data"
    /\ compromisedCalls' = compromisedCalls \ {c}
    /\ IF c.n = compromisedPr
       THEN /\ compromisedRecords' = c.result
            /\ compromisedPr' = 0
            /\ compromisedLoading' = FALSE
       ELSE UNCHANGED <<compromisedRecords, compromisedPr, compromisedLoading>>
    /\ UNCHANGED <<compromisedOnly, listLoading>>

\* Click on the indicator: setCompromisedOnly(!compromisedOnly()).
CompromisedOnlyClick ==
    /\ IndicatorShown
    /\ compromisedOnly' = ~compromisedOnly
    /\ UNCHANGED <<compromisedRecords, compromisedLoading, compromisedCalls,
                   compromisedPr, listLoading>>

IdleSecurity ==
    /\ compromisedRecords = "undefined"
    /\ compromisedLoading = FALSE
    /\ compromisedOnly = FALSE
    /\ compromisedCalls = {}
    /\ compromisedPr = 0
    /\ listLoading = FALSE

\* Main is created: both resources fetch at once.
InitSecurityOwn ==
    /\ compromisedRecords = "undefined"
    /\ compromisedLoading = TRUE
    /\ compromisedOnly = FALSE
    /\ compromisedCalls = {[n |-> 1, resp |-> "sent", result |-> <<>>]}
    /\ compromisedPr = 1
    /\ listLoading = TRUE

NextSecurity ==
    \/ SecurityRefetchAll /\ UNCHANGED notSecurityVars
    \/ SecurityListReturn /\ UNCHANGED notSecurityVars
    \/ \E c \in compromisedCalls, list \in CompromisedLists :
          BackendGetCompromisedRecords(c, list) /\ UNCHANGED notSecurityVars
    \/ \E c \in compromisedCalls :
          GetCompromisedRecordsReturn(c) /\ UNCHANGED notSecurityVars
    \/ CompromisedOnlyClick /\ UNCHANGED notSecurityVars

\* ------------------------------------------------------------------------
\* RecordDetail, earlier variant: Move up, Move down, Add, Delete
\* (indices are the 0-based index() of <For>; rows are [cid, position])
\* ------------------------------------------------------------------------

\* Move up on the row at index i: allContent()[i - 1].position = i + 1;
\* content.position = i - 1; then the two swap places.
VariantMoveUpList(L, i) ==
    LET L1 == [L EXCEPT ![i].position = i + 1]
        L2 == [L1 EXCEPT ![i + 1].position = i - 1]
    IN  [L2 EXCEPT ![i] = L2[i + 1], ![i + 1] = L2[i]]

\* Move down on the row at index i: allContent()[i + 1].position = i + 1;
\* content.position = i + 1; then the two swap places.
VariantMoveDownList(L, i) ==
    LET L1 == [L EXCEPT ![i + 2].position = i + 1]
        L2 == [L1 EXCEPT ![i + 1].position = i + 1]
    IN  [L2 EXCEPT ![i + 2] = L2[i + 1], ![i + 1] = L2[i + 2]]

\* addContent: temp.push(new Content("", allContent().length + 1, ...))
VariantAddContentList(L, cid) ==
    Append(L, [cid |-> cid, position |-> Len(L) + 1])

\* Delete: temp.splice(index, 1); temp.forEach((item, index) => item.position = index)
VariantDeleteList(L, i) ==
    LET S == SubSeq(L, 1, i) \o SubSeq(L, i + 2, Len(L))
    IN  [k \in 1..Len(S) |-> [S[k] EXCEPT !.position = k - 1]]

VariantFreshCid ==
    CHOOSE n \in 1..(MaxVariant + 1) :
        n \notin {variantContent[k].cid : k \in 1..Len(variantContent)}

VariantMoveUp(i) ==
    /\ i > 0 /\ i < Len(variantContent)
    /\ variantContent' = VariantMoveUpList(variantContent, i)
    /\ UNCHANGED variantConfirm

VariantMoveDown(i) ==
    /\ i < Len(variantContent) - 1
    /\ variantContent' = VariantMoveDownList(variantContent, i)
    /\ UNCHANGED variantConfirm

VariantAddContent ==
    /\ Len(variantContent) < MaxVariant
    /\ variantContent' = VariantAddContentList(variantContent, VariantFreshCid)
    /\ UNCHANGED variantConfirm

\* Delete click on a row not yet saved: the confirm dialog opens.
VariantDeleteClick(i) ==
    /\ variantConfirm = 0
    /\ variantConfirm' = variantContent[i + 1].cid
    /\ UNCHANGED variantContent

\* The dialog is answered: a declined delete returns, a confirmed one splices
\* the row at the index the row has by then and renumbers the list.
VariantDeleteAnswer(confirmed) ==
    /\ variantConfirm # 0
    /\ variantConfirm' = 0
    /\ IF confirmed /\ \E k \in 1..Len(variantContent) :
                          variantContent[k].cid = variantConfirm
       THEN LET k == CHOOSE k \in 1..Len(variantContent) :
                         variantContent[k].cid = variantConfirm
            IN  variantContent' = VariantDeleteList(variantContent, k - 1)
       ELSE UNCHANGED variantContent

IdleVariant ==
    /\ variantContent = <<>>
    /\ variantConfirm = 0

\* The content of the record as loaded: positions 0, 1, ... in list order.
InitVariantOwn ==
    /\ \E n \in 0..MaxVariant :
          variantContent = [k \in 1..n |-> [cid |-> k, position |-> k - 1]]
    /\ variantConfirm = 0

NextVariant ==
    \/ \E i \in 0..(MaxVariant - 1) : VariantMoveUp(i) /\ UNCHANGED notVariantVars
    \/ \E i \in 0..(MaxVariant - 1) : VariantMoveDown(i) /\ UNCHANGED notVariantVars
    \/ VariantAddContent /\ UNCHANGED notVariantVars
    \/ \E i \in 0..(MaxVariant - 1) :
          i < Len(variantContent) /\ VariantDeleteClick(i) /\ UNCHANGED notVariantVars
    \/ \E confirmed \in BOOLEAN :
          VariantDeleteAnswer(confirmed) /\ UNCHANGED notVariantVars

\* ------------------------------------------------------------------------
\* RecordDetail and ContentValue: registering and removing event listeners
\* ------------------------------------------------------------------------

\* A RecordDetail with two ContentValue rows (content ids 1 and 2).
Components ==
    {"RecordDetail", "ContentValue1", "ContentValue2"}

\* The events onMount listens to, in the order of its listen() calls.
ListenedEvents(comp) ==
    IF comp = "RecordDetail"
    THEN <<"copy_value_to_clipboard", "copy_text_to_clipboard", "add_content">>
    ELSE IF comp = "ContentValue1" THEN <<"visibility1">>
    ELSE <<"visibility2">>

\* onMount has returned: every listen() was awaited.
MountDone(comp) ==
    listenPc[comp] > Len(ListenedEvents(comp))

\* The event system registers the listener of the pending listen() call.
BackendListen(comp) ==
    /\ ~MountDone(comp)
    /\ listenSent[comp]
    /\ listenSent' = [listenSent EXCEPT ![comp] = FALSE]
    /\ registered' = [registered EXCEPT
                        ![comp] = @ \cup {ListenedEvents(comp)[listenPc[comp]]}]
    /\ UNCHANGED <<listenPc, unlistenFns, cleanedUp>>

\* await listen(...) resolves: the unlisten variable is assigned and onMount
\* goes on to its next listen() call, whether or not onCleanup has run.
ListenResolve(comp) ==
    /\ ~MountDone(comp)
    /\ ~listenSent[comp]
    /\ unlistenFns' = [unlistenFns EXCEPT
                         ![comp] = @ \cup {ListenedEvents(comp)[listenPc[comp]]}]
    /\ listenPc' = [listenPc EXCEPT ![comp] = @ + 1]
    /\ listenSent' = [listenSent EXCEPT
                        ![comp] = listenPc[comp] < Len(ListenedEvents(comp))]
    /\ UNCHANGED <<registered, cleanedUp>>

\* onCleanup: each unlisten function that is set is called; a listener whose
\* unlisten variable is still undefined stays.
CleanupLeaves(comp) ==
    registered[comp] \ unlistenFns[comp]

OnCleanup(comp) ==
    /\ ~cleanedUp[comp]
    /\ cleanedUp' = [cleanedUp EXCEPT ![comp] = TRUE]
    /\ registered' = [registered EXCEPT ![comp] = CleanupLeaves(comp)]
    /\ UNCHANGED <<listenPc, listenSent, unlistenFns>>

IdleListeners ==
    /\ listenPc = [comp \in Components |-> 1]
    /\ listenSent = [comp \in Components |-> FALSE]
    /\ registered = [comp \in Components |-> {}]
    /\ unlistenFns = [comp \in Components |-> {}]
    /\ cleanedUp = [comp \in Components |-> FALSE]

\* The components are mounted: each onMount has made its first listen() call.
InitListenersOwn ==
    /\ listenPc = [comp \in Components |-> 1]
    /\ listenSent = [comp \in Components |-> TRUE]
    /\ registered = [comp \in Components |-> {}]
    /\ unlistenFns = [comp \in Components |-> {}]
    /\ cleanedUp = [comp \in Components |-> FALSE]

NextListeners ==
    \/ \E comp \in Components : BackendListen(comp) /\ UNCHANGED notListenerVars
    \/ \E comp \in Components : ListenResolve(comp) /\ UNCHANGED notListenerVars
    \/ \E comp \in Components : OnCleanup(comp) /\ UNCHANGED notListenerVars

IdleAuth ==
    /\ dbFile = "none"
    /\ session = FALSE
    /\ window = "loading"
    /\ loginPassword = ""
    /\ loginLoading = FALSE
    /\ loginError = ""
    /\ loginCalls = {}
    /\ regInput = ""
    /\ regConfirmInput = ""
    /\ regPassword = "undefined"
    /\ regConfirmPassword = "undefined"
    /\ regError = ""
    /\ registerCalls = {}
    /\ startOver = "idle"
    /\ lastAuth = NoAuth

IdleEditor ==
    /\ allContent = <<>>
    /\ edit = FALSE
    /\ dialogs = {}
    /\ deleteCalls = {}
    /\ dbContent = {}
    /\ loaded = <<>>

\* The application starts for the first time: no database file, no session.
InitAuth ==
    IdleAuth /\ IdleEditor /\ IdleSave /\ IdleMain /\ IdleValue /\ IdleCloud /\ IdleChange
    /\ IdleRecords
    /\ IdleStartOver
    /\ IdleSync
    /\ IdleCheck
    /\ IdleTotp
    /\ IdleGenerate
    /\ IdleField
    /\ IdleIndicator
    /\ IdleSubmit
    /\ IdleSecurity
    /\ IdleVariant
    /\ IdleListeners

NextAuth ==
    \/ InitializeWindowResolve /\ UNCHANGED notAuthVars
    \/ AppRestart /\ UNCHANGED notAuthVars
    \/ \E p \in Passwords : RegisterInput(p) /\ UNCHANGED notAuthVars
    \/ \E p \in Passwords : RegisterConfirmInput(p) /\ UNCHANGED notAuthVars
    \/ RegisterSubmit /\ UNCHANGED notAuthVars
    \/ \E c \in registerCalls : BackendRegister(c) /\ UNCHANGED notAuthVars
    \/ \E c \in registerCalls : RegisterReturn(c) /\ UNCHANGED notAuthVars
    \/ \E p \in Passwords : LoginInput(p) /\ UNCHANGED notAuthVars
    \/ LoginSubmit /\ UNCHANGED notAuthVars
    \/ \E c \in loginCalls : BackendLogin(c) /\ UNCHANGED notAuthVars
    \/ \E c \in loginCalls : LoginReturn(c) /\ UNCHANGED notAuthVars
    \/ StartOverClick /\ UNCHANGED notAuthVars
    \/ \E result \in BOOLEAN : StartOverConfirm(result) /\ UNCHANGED notAuthVars
    \/ BackendStartOver /\ UNCHANGED notAuthVars

SpecAuth ==
    InitAuth /\ [][NextAuth]_vars

InitEditor ==
    InitEditorOwn /\ IdleSave /\ IdleAuth /\ IdleMain /\ IdleValue /\ IdleCloud /\ IdleChange
    /\ IdleRecords
    /\ IdleStartOver
    /\ IdleSync
    /\ IdleCheck
    /\ IdleTotp
    /\ IdleGenerate
    /\ IdleField
    /\ IdleIndicator
    /\ IdleSubmit
    /\ IdleSecurity
    /\ IdleVariant
    /\ IdleListeners

InitSave ==
    InitSaveOwn /\ IdleAuth /\ IdleMain /\ IdleValue /\ IdleCloud /\ IdleChange
    /\ IdleRecords
    /\ IdleStartOver
    /\ IdleSync
    /\ IdleCheck
    /\ IdleTotp
    /\ IdleGenerate
    /\ IdleField
    /\ IdleIndicator
    /\ IdleSubmit
    /\ IdleSecurity
    /\ IdleVariant
    /\ IdleListeners

InitMain ==
    InitMainOwn /\ IdleEditor /\ IdleSave /\ IdleAuth /\ IdleValue /\ IdleCloud /\ IdleChange
    /\ IdleRecords
    /\ IdleStartOver
    /\ IdleSync
    /\ IdleCheck
    /\ IdleTotp
    /\ IdleGenerate
    /\ IdleField
    /\ IdleIndicator
    /\ IdleSubmit
    /\ IdleSecurity
    /\ IdleVariant
    /\ IdleListeners

InitValue ==
    /\ InitValueOwn
    /\ allContent = <<>> /\ dialogs = {} /\ deleteCalls = {}
    /\ dbContent = {} /\ loaded = <<>>
    /\ IdleSave /\ IdleAuth /\ IdleMain /\ IdleCloud /\ IdleChange
    /\ IdleRecords
    /\ IdleStartOver
    /\ IdleSync
    /\ IdleCheck
    /\ IdleTotp
    /\ IdleGenerate
    /\ IdleField
    /\ IdleIndicator
    /\ IdleSubmit
    /\ IdleSecurity
    /\ IdleVariant
    /\ IdleListeners

InitCloud ==
    InitCloudOwn /\ IdleEditor /\ IdleSave /\ IdleMain /\ IdleValue /\ IdleChange
    /\ IdleRecords
    /\ IdleStartOver
    /\ IdleSync
    /\ IdleCheck
    /\ IdleTotp
    /\ IdleGenerate
    /\ IdleField
    /\ IdleIndicator
    /\ IdleSubmit
    /\ IdleSecurity
    /\ IdleVariant
    /\ IdleListeners

InitChange ==
    /\ UnlockedAuth /\ IdleChange
    /\ IdleEditor /\ IdleSave /\ IdleMain /\ IdleValue /\ IdleCloud
    /\ IdleRecords
    /\ IdleStartOver
    /\ IdleSync
    /\ IdleCheck
    /\ IdleTotp
    /\ IdleGenerate
    /\ IdleField
    /\ IdleIndicator
    /\ IdleSubmit
    /\ IdleSecurity
    /\ IdleVariant
    /\ IdleListeners

SpecChange ==
    InitChange /\ [][NextChange]_vars

InitRecords ==
    InitRecordsOwn /\ UnlockedAuth /\ IdleValue /\ IdleCloud /\ IdleChange
    /\ IdleStartOver
    /\ IdleSync
    /\ IdleCheck
    /\ IdleTotp
    /\ IdleGenerate
    /\ IdleField
    /\ IdleIndicator
    /\ IdleSubmit
    /\ IdleSecurity
    /\ IdleVariant
    /\ IdleListeners

SpecRecords ==
    InitRecords /\ [][NextRecords]_vars

\* The program with either the content editor or the record list open.
InitDeletes ==
    InitEditor \/ InitRecords

NextDeletes ==
    NextEditor \/ NextRecords

SpecDeletes ==
    InitDeletes /\ [][NextDeletes]_vars

SpecStartOver ==
    InitAuth /\ [][NextStartOver]_vars

\* Every pending call is answered and every settled promise runs its
\* continuation; the user's steps are under no obligation.
RecordsFairness ==
    /\ WF_vars(\E c \in listCalls : BackendGetAllRecords(c)
         /\ UNCHANGED notRecordsVars /\ UnsyncedStep)
    /\ WF_vars(\E c \in listCalls : GetAllRecordsReturn(c)
         /\ UNCHANGED notRecordsVars /\ UnsyncedStep)
    /\ WF_vars(CompromisedReturn
         /\ UNCHANGED notRecordsVars /\ UnsyncedStep)
    /\ WF_vars(\E c \in recordCalls : BackendDeleteRecord(c)
         /\ UNCHANGED notRecordsVars /\ UnsyncedStep)
    /\ WF_vars(\E c \in recordCalls : DeleteRecordFulfilled(c)
         /\ UNCHANGED notRecordsVars /\ UnsyncedStep)
    /\ WF_vars(\E c \in recordCalls : DeleteRecordRejected(c)
         /\ UNCHANGED notRecordsVars /\ UnsyncedStep)
    /\ WF_vars(\E c \in cloudCalls, ok \in BOOLEAN : BackendSaveToCloud(c, ok)
                 /\ UNCHANGED <<dbRecords, dbContent, recordsVars, notRecordsVars>>
         /\ UnsyncedStep)
    /\ WF_vars(\E c \in cloudCalls : SaveToCloudReturn(c)
                 /\ UNCHANGED <<dbRecords, dbContent, recordsVars, notRecordsVars>>
         /\ UnsyncedStep)

SpecRecordsFair ==
    SpecRecords /\ RecordsFairness

InitCheck ==
    /\ InitCheckOwn
    /\ IdleEditor /\ IdleSave /\ IdleAuth /\ IdleMain /\ IdleValue /\ IdleCloud
    /\ IdleChange /\ IdleRecords /\ IdleStartOver /\ IdleSync
    /\ IdleTotp
    /\ IdleGenerate
    /\ IdleField
    /\ IdleIndicator
    /\ IdleSubmit
    /\ IdleSecurity
    /\ IdleVariant
    /\ IdleListeners

SpecCheck ==
    InitCheck /\ [][NextCheck]_vars

InitTotp ==
    /\ InitTotpOwn
    /\ IdleEditor /\ IdleSave /\ IdleAuth /\ IdleMain /\ IdleValue /\ IdleCloud
    /\ IdleChange /\ IdleRecords /\ IdleStartOver /\ IdleSync /\ IdleCheck
    /\ IdleGenerate
    /\ IdleField
    /\ IdleIndicator
    /\ IdleSubmit
    /\ IdleSecurity
    /\ IdleVariant
    /\ IdleListeners

SpecTotp ==
    InitTotp /\ [][NextTotp]_vars

InitGenerate ==
    /\ InitGenerateOwn
    /\ IdleEditor /\ IdleSave /\ IdleAuth /\ IdleMain /\ IdleValue /\ IdleCloud
    /\ IdleChange /\ IdleRecords /\ IdleStartOver /\ IdleSync /\ IdleCheck
    /\ IdleTotp
    /\ IdleField
    /\ IdleIndicator
    /\ IdleSubmit
    /\ IdleSecurity
    /\ IdleVariant
    /\ IdleListeners

SpecGenerate ==
    InitGenerate /\ [][NextGenerate]_vars

InitField ==
    /\ InitFieldOwn
    /\ IdleEditor /\ IdleSave /\ IdleAuth /\ IdleMain /\ IdleValue /\ IdleCloud
    /\ IdleChange /\ IdleRecords /\ IdleStartOver /\ IdleSync /\ IdleCheck
    /\ IdleTotp /\ IdleGenerate
    /\ IdleIndicator
    /\ IdleSubmit
    /\ IdleSecurity
    /\ IdleVariant
    /\ IdleListeners

SpecField ==
    InitField /\ [][NextField]_vars

InitIndicator ==
    /\ InitIndicatorOwn
    /\ IdleEditor /\ IdleSave /\ IdleAuth /\ IdleMain /\ IdleValue /\ IdleCloud
    /\ IdleChange /\ IdleRecords /\ IdleStartOver /\ IdleSync /\ IdleCheck
    /\ IdleTotp /\ IdleGenerate /\ IdleField
    /\ IdleSubmit
    /\ IdleSecurity
    /\ IdleVariant
    /\ IdleListeners

SpecIndicator ==
    InitIndicator /\ [][NextIndicator]_vars

NextRegister ==
    \/ InitializeWindowResolve /\ UNCHANGED notAuthVars
    \/ AppRestart /\ UNCHANGED notAuthVars
    \/ \E p \in Passwords : RegisterInput(p) /\ UNCHANGED notAuthVars
    \/ \E p \in Passwords : RegisterConfirmInput(p) /\ UNCHANGED notAuthVars
    \/ RegisterSubmit /\ SubmitNoted /\ UNCHANGED notRegisterVars
    \/ \E c \in registerCalls : BackendRegister(c) /\ UNCHANGED notAuthVars
    \/ \E c \in registerCalls : RegisterReturn(c) /\ UNCHANGED notAuthVars
    \/ \E p \in Passwords : LoginInput(p) /\ UNCHANGED notAuthVars
    \/ LoginSubmit /\ UNCHANGED notAuthVars
    \/ \E c \in loginCalls : BackendLogin(c) /\ UNCHANGED notAuthVars
    \/ \E c \in loginCalls : LoginReturn(c) /\ UNCHANGED notAuthVars
    \/ StartOverClick /\ UNCHANGED notAuthVars
    \/ \E result \in BOOLEAN : StartOverConfirm(result) /\ UNCHANGED notAuthVars
    \/ BackendStartOver /\ UNCHANGED notAuthVars

SpecRegister ==
    InitAuth /\ [][NextRegister]_vars

InitSecurity ==
    /\ InitSecurityOwn
    /\ IdleEditor /\ IdleSave /\ IdleAuth /\ IdleMain /\ IdleValue /\ IdleCloud
    /\ IdleChange /\ IdleRecords /\ IdleStartOver /\ IdleSync /\ IdleCheck
    /\ IdleTotp /\ IdleGenerate /\ IdleField /\ IdleIndicator /\ IdleSubmit
    /\ IdleVariant
    /\ IdleListeners

SpecSecurity ==
    InitSecurity /\ [][NextSecurity]_vars

InitVariant ==
    /\ InitVariantOwn
    /\ IdleEditor /\ IdleSave /\ IdleAuth /\ IdleMain /\ IdleValue /\ IdleCloud
    /\ IdleChange /\ IdleRecords /\ IdleStartOver /\ IdleSync /\ IdleCheck
    /\ IdleTotp /\ IdleGenerate /\ IdleField /\ IdleIndicator /\ IdleSubmit
    /\ IdleSecurity
    /\ IdleListeners

SpecVariant ==
    InitVariant /\ [][NextVariant]_vars

InitListeners ==
    /\ InitListenersOwn
    /\ IdleEditor /\ IdleSave /\ IdleAuth /\ IdleMain /\ IdleValue /\ IdleCloud
    /\ IdleChange /\ IdleRecords /\ IdleStartOver /\ IdleSync /\ IdleCheck
    /\ IdleTotp /\ IdleGenerate /\ IdleField /\ IdleIndicator /\ IdleSubmit
    /\ IdleSecurity /\ IdleVariant

SpecListeners ==
    InitListeners /\ [][NextListeners]_vars

\* The form is submitted with the content it was opened with.
NextResubmit ==
    \/ SubmitView /\ UNCHANGED notSaveVars
    \/ SubmitEdit /\ UNCHANGED notSaveVars
    \/ SubmitEditAgain /\ UNCHANGED notSaveVars
    \/ \E c \in saveCalls, fails \in BOOLEAN : BackendSaveRecord(c, fails) /\ UNCHANGED notSaveVars
    \/ \E c \in saveCalls : SaveFulfilled(c) /\ UNCHANGED notSaveVars
    \/ \E c \in saveCalls : SaveRejected(c) /\ UNCHANGED notSaveVars
    \/ \E c \in saveCalls : MessageClosed(c) /\ UNCHANGED notSaveVars
    \/ ReadBack /\ UNCHANGED notSaveVars

SpecResubmit ==
    InitSave /\ [][NextResubmit]_vars

SpecCloud ==
    InitCloud /\ [][NextCloud]_vars

SpecValue ==
    InitValue /\ [][NextValue]_vars

SpecMain ==
    InitMain /\ [][NextMain]_vars

SpecSave ==
    InitSave /\ [][NextSave]_vars

SpecEditor ==
    InitEditor /\ [][NextEditor]_vars

\* ------------------------------------------------------------------------
\* C1: in the record-detail editor, after any sequence of add, move up, move
\* down and confirmed delete actions every item's position equals its index
\* in the list, so the content handed to save_record carries the positions
\* 0..n-1, each once.
\* ------------------------------------------------------------------------
C1_PositionIsIndex ==
    /\ \A k \in DOMAIN allContent : allContent[k].position = k - 1
    /\ {c.position : c \in Range(allContent)} = 0..(Len(allContent) - 1)

\* An added item was moved above a loaded one and a loaded item was deleted.
C1_Witness ==
    /\ \E k \in DOMAIN allContent :
         /\ allContent[k].id = 0
         /\ k < Len(allContent)
         /\ allContent[k + 1].id # 0
    /\ Cardinality(dbContent) < Len(loaded)
    /\ deleteCalls = {}
    /\ dialogs = {}

\* ------------------------------------------------------------------------
\* C2: a content item with required = true is never removed: the editor
\* starts no delete handler for it, the store answers no delete_content for
\* it with success, and after any sequence of delete attempts every required
\* item of the loaded record is still stored and still listed, unchanged.
\* ------------------------------------------------------------------------
C2_RequiredKept ==
    /\ \A h \in dialogs \cup deleteCalls : ~h.required
    /\ \A r \in dbContent : r.required => DeleteContentResult(dbContent, r.id) # "ok"
    /\ \A c \in Range(loaded) :
         c.required =>
           /\ \E r \in dbContent :
                r.id = c.id /\ r.required /\ r.kind = c.kind
           /\ \E k \in DOMAIN allContent :
                allContent[k] = [c EXCEPT !.position = k - 1]

\* A record with a required item, after a delete of another stored item went
\* through the dialog, the store and the splice.
C2_Witness ==
    /\ \E c \in Range(loaded) : c.required
    /\ Cardinality(dbContent) < Len(loaded)
    /\ Len(allContent) = Cardinality(dbContent)
    /\ deleteCalls = {}
    /\ dialogs = {}

\* C3: after a registration with master password p, a login succeeds exactly
\* when it is made with p, and then a session exists and the window goes to
\* Main; a login with any other password is answered with an AuthError, which
\* the login form shows, creates no session and leaves the mode at Login.
C3_LoginOutcome ==
    /\ lastAuth.op = "register" /\ lastAuth.ok => dbFile = lastAuth.pw /\ session
    /\ lastAuth.op = "login" => (lastAuth.ok <=> lastAuth.pw = dbFile)
    /\ lastAuth.op = "login" /\ lastAuth.ok =>
         session /\ Page(window) \in {"Loading", "Main"}
    /\ lastAuth.op = "login" /\ ~lastAuth.ok =>
         /\ ~session
         /\ Page(window) = "Login"
         /\ InitializeWindow(dbFile, session) = "Login"
         /\ loginCalls = {} => loginError = "AuthError"
    /\ \A c \in loginCalls : c.resp # "sent" => c.resp = "AuthError" /\ c.pw # dbFile
    /\ loginError # "" => loginError = "AuthError" /\ ~session

C3_Witness ==
    /\ lastAuth.op = "login" /\ lastAuth.ok
    /\ lastAuth.pw = dbFile
    /\ window = "Main"

\* C4: a session exists only with a database file; the window resource, once
\* settled, is Main exactly with a session, Login exactly with a database
\* file and no session, Register exactly without a database file; the Main
\* page is rendered only for Main, that is only with a session.
C4_ModeAndPage ==
    /\ session => dbFile # "none"
    /\ window # "loading" => window = InitializeWindow(dbFile, session)
    /\ Page(window) = "Main" <=> (window # "loading" /\ session)
    /\ Page(window) = "Login" => dbFile # "none" /\ ~session
    /\ Page(window) = "Register" => dbFile = "none" /\ ~session
    /\ Page(window) # "Not Found"

C4_Witness ==
    /\ Page(window) = "Login"
    /\ dbFile # "none"
    /\ lastAuth = NoAuth

C7_OneUploadInFlight ==
    Cardinality({c \in cloudCalls : c.resp = "sent"}) <= 1

C11_FailedChangeHasNoEffect ==
    ~lastChange.ok /\ chCalls = {} =>
        /\ dbFile = lastChange.old
        /\ LoginOk(dbFile, lastChange.old)
        /\ lastChange.pw # lastChange.old => ~LoginOk(dbFile, lastChange.pw)
        /\ chError = lastChange.err /\ chError # ""
        /\ ~chLoading

C11_Witness ==
    /\ ~lastChange.ok /\ chCalls = {}
    /\ lastChange.err = "WeakPassword"
    /\ lastChange.old = "q"
    /\ uploadEvents = 1

\* C12: once delete_record(r) has succeeded the store holds neither r nor a
\* content row of r; the step of the store that deletes r leaves every other
\* record and content row as it was; and the handler's continuation refetches
\* the record list and the compromised list and clears the selection.
C12_DeleteRecordCascades ==
    /\ [](\A c \in recordCalls : c.resp = "ok" =>
            /\ ~\E r \in dbRecords : r.id = RecordId(c.item)
            /\ ~\E r \in dbContent : r.record = RecordId(c.item))
    /\ [][\A c \in recordCalls :
            c.resp = "sent" /\ [c EXCEPT !.resp = "ok"] \in recordCalls' =>
              /\ {r \in dbRecords' : r.id # RecordId(c.item)}
                   = {r \in dbRecords : r.id # RecordId(c.item)}
              /\ {r \in dbContent' : r.record # RecordId(c.item)}
                   = {r \in dbContent : r.record # RecordId(c.item)}]_vars
    /\ [][\A c \in recordCalls :
            c.resp = "ok" /\ c \notin recordCalls' =>
              /\ selected' = "undefined"
              /\ allRecords' = "loading"
              /\ listPr' \notin {x.n : x \in listCalls}
              /\ \E x \in listCalls' : x.n = listPr' /\ x.resp = "sent"
              /\ compromisedPending' = compromisedPending + 1]_vars

C12_Witness ==
    /\ dbRecords = {[id |-> 2, title |-> "t"]}
    /\ dbContent = {Row(2, Content(2, "a", 0, TRUE, "Password", 2))}
    /\ recordCalls = {}
    /\ selected = "undefined"
    /\ allRecords = "loading"
    /\ "r1" \in shownRecords
    /\ compromisedPending > 0

\* C13: the store answers a delete_record or delete_content call for an id
\* it does not hold with NotFound, and a step answering NotFound leaves the
\* record rows and the content rows as they were; and when a delete_content
\* handler ends after a failed call, the editor's list is as it was.
C13_NotFoundChangesNothing ==
    /\ [][\A c \in recordCalls : \A x \in recordCalls' :
            c.resp = "sent" /\ x.n = c.n /\ x.resp # "sent" =>
              /\ (~\E r \in dbRecords : r.id = RecordId(c.item))
                    => x.resp = "NotFound"
              /\ x.resp = "NotFound" =>
                    dbRecords' = dbRecords /\ dbContent' = dbContent]_vars
    /\ [][\A c \in deleteCalls : \A x \in deleteCalls' :
            c.resp = "sent" /\ x.n = c.n /\ x.resp # "sent" =>
              /\ (~\E r \in dbContent : r.id = c.id) => x.resp = "NotFound"
              /\ x.resp = "NotFound" => dbContent' = dbContent]_vars
    /\ [][\A c \in deleteCalls :
            /\ c.resp \notin {"sent", "ok", "confirm"}
            /\ \A x \in deleteCalls' : x.n # c.n
            => allContent' = allContent]_vars

C13_Witness ==
    \E c \in deleteCalls :
        /\ c.resp = "NotFound"
        /\ \E k \in DOMAIN allContent :
              allContent[k].cid = c.cid /\ allContent[k].position = k - 1
        /\ ~\E r \in dbContent : r.id = c.id

\* C14: a start_over call is in flight only after the dialog returned true;
\* the step in which the back-end runs it destroys the database file and
\* reloads the window, which then shows Register; and after the dialog
\* returned false nothing is invoked, the step of the answer leaving the
\* database file, the session and the window as they were.
C14_StartOverAfterConfirm ==
    /\ [](startOver = "sent" => dialogResult = "true")
    /\ [](dialogResult = "false" => startOver = "idle")
    /\ [](dbFile = "none" /\ window # "loading" => Page(window) = "Register")
    /\ [][dialogResult' = "ran" /\ dialogResult # "ran" =>
            /\ startOver = "sent"
            /\ dbFile' = "none" /\ ~session' /\ window' = "loading"]_vars
    /\ [][dialogResult' = "false" /\ startOver = "confirm" =>
            UNCHANGED <<dbFile, session, window, lastAuth>>]_vars

C14_Witness ==
    /\ dialogResult = "ran"
    /\ startOver = "idle"
    /\ dbFile = "none"
    /\ Page(window) = "Register"
    /\ lastAuth = NoAuth

\* C15: while the last upload has failed the side bar shows the status
\* "Failed to sync"; the step in which the failure arrives changes nothing
\* but the cloud resource (the stored rows, the selection and the lists stay
\* as they are); and with the failure shown the items of the list can still
\* be selected and their context menu, with Delete, still opens.
C15_UploadFailureNotFatal ==
    /\ [](cloudState = "errored" =>
            CloudStatusText(cloudState, cloudValue) = "Failed to sync")
    /\ [][cloudState' = "errored" /\ cloudState # "errored" =>
            UNCHANGED <<dbRecords, dbContent, allRecords, selected,
                        recordsVars>>]_vars
    /\ [](/\ cloudState = "errored"
          /\ allRecords = "ready" /\ menu = "none" /\ RoomForCall
          => \A item \in shownRecords :
                /\ ENABLED ListedRecordClick(item)
                /\ ENABLED ContextMenu(item))

C15_Witness ==
    /\ cloudState = "errored"
    /\ allRecords = "ready" /\ menu = "none" /\ RoomForCall
    /\ shownRecords = {"r2"}
    /\ dbRecords = {[id |-> 2, title |-> "t"]}
    /\ selected = "r2"

\* C16: with cloud sync in use, once delete_record has removed a record
\* save_to_cloud is invoked, or an invocation already made is carried out,
\* afterwards.
C16_MutationThenUpload ==
    unsynced ~> ~unsynced

C18_NetworkFailureSilent ==
    /\ \A c \in checkCalls : c.net = "failed" => c.resp = "Ok"
    /\ lastCheck.net = "failed" =>
         /\ lastCheck.resp = "Ok"
         /\ pwError = ""
         /\ valueMessage = ""
    /\ \A c, d \in checkCalls :
         c.resp = "lookup" /\ d.resp = "sent" =>
             ENABLED (BackendCheckPassword(d, TRUE) /\ UNCHANGED notCheckVars)

\* The lookup made for the field now shown failed and its answer has settled.
C18_Witness ==
    /\ lastCheck.net = "failed"
    /\ lookups # {}
    /\ checkCalls = {}

C20_FailedGenerateSetsErrorOnly ==
    /\ \A l \in 0..InitialLength, flags \in [ClassNames -> BOOLEAN] :
         GeneratePasswordResult(l, flags) = "InvalidParameters"
             <=> (l < MinLength \/ flags = [k \in ClassNames |-> FALSE])
    /\ [](\A c \in genCalls :
            c.resp = "InvalidParameters"
                <=> (c.resp # "sent" /\ (c.length < MinLength
                                            \/ \A k \in ClassNames : ~c.flags[k])))
    /\ [][\A c \in genCalls :
            c.resp = "InvalidParameters" /\ c \notin genCalls' =>
                /\ genError' = "InvalidParameters"
                /\ genValue' = genValue
                /\ genShown' = genShown
                /\ genValidity' = genValidity
                /\ genStrength' = genStrength]_vars

\* Generate was clicked with every class unchecked after an invalid value
\* was typed over a weak one: the rejection has settled.
C20_Witness ==
    /\ genError = "InvalidParameters"
    /\ genCalls = {}
    /\ genValue = ""
    /\ genValidity # ""
    /\ genStrength = PasswordStrength("weak")

\* C21: the content of every save_record call made by the form carries a value
\* for which validate returns no message.
C21_SavedValuesValid ==
    lastPayload # NoPayload => Validate(lastPayload.kind, lastPayload.value) = ""

\* C23: the content of a save_record call never carries the display mask as
\* the value of a stored sensitive content.
C23_MaskNeverSaved ==
    lastPayload.kind \in SensitiveKinds => lastPayload.value # MaskChars

\* C24: when no validate call of the input is outstanding, its custom validity
\* is the verdict of validate for the value last typed.
C24_ValidityOfCurrentValue ==
    validateCalls = {} /\ fLastInput # <<>> =>
        fValidity = Validate(fKind, fLastInput)
\* ------------------------------------------------------------------------
\* C22
\* ------------------------------------------------------------------------

\* The documented table: a row is a range of strengths, a label and a colour.
DocumentedTable ==
    { [lo |-> 0,  hi |-> 20,  label |-> "Very dangerous", colour |-> "bg-red-500"],
      [lo |-> 20, hi |-> 40,  label |-> "Dangerous",      colour |-> "bg-red-500"],
      [lo |-> 40, hi |-> 60,  label |-> "Very weak",      colour |-> "bg-orange-500"],
      [lo |-> 60, hi |-> 80,  label |-> "Weak",           colour |-> "bg-yellow-500"],
      [lo |-> 80, hi |-> 90,  label |-> "Good",           colour |-> "bg-yellow-500"],
      [lo |-> 90, hi |-> 95,  label |-> "Strong",         colour |-> "bg-green-500"],
      [lo |-> 95, hi |-> 99,  label |-> "Very strong",    colour |-> "bg-green-500"],
      [lo |-> 99, hi |-> 100, label |-> "Invulnerable",   colour |-> "bg-green-500"] }

C26_EverySubmitInvokes ==
    lastSubmit # NoSubmit => lastSubmit.invoked

\* ------------------------------------------------------------------------
\* C28
\* ------------------------------------------------------------------------

\* C28: at most one login call is in flight, and loading (the disabled submit
\* button) is true exactly while one is; when a failed call settles on the
\* login page, loading is false again and the error shown is the message the
\* call returned.
C28_OneLoginAtATime ==
    [][ /\ Cardinality(loginCalls') <= 1
        /\ loginLoading' <=> loginCalls' # {}
        /\ \A c \in loginCalls :
              c.resp # "sent" /\ c \notin loginCalls' /\ window' = window =>
                  loginError' = c.resp /\ ~loginLoading' ]_vars

\* A failed attempt has settled and a further attempt has been issued.
C28_Witness ==
    /\ loginError = "AuthError"
    /\ loginLoading
    /\ \E c \in loginCalls : c.resp = "sent"

\* ------------------------------------------------------------------------
\* C29
\* ------------------------------------------------------------------------

\* C29: whenever the security-check indicator is on the screen, it shows
\* "A problem has been found" only if the last completed
\* get_compromised_records call returned a non-empty list, and it shows
\* "Everything is fine" only if no call is pending and the last completed one
\* returned an empty list.
C29_IndicatorTellsResult ==
    IndicatorShown =>
        /\ SecurityCheckText = "A problem has been found" =>
              compromisedRecords # "undefined" /\ compromisedRecords # <<>>
        /\ SecurityCheckText = "Everything is fine" =>
              ~compromisedLoading /\ compromisedRecords = <<>>

\* ------------------------------------------------------------------------
\* C30
\* ------------------------------------------------------------------------

\* C30: in the earlier RecordDetail variant the positions of the items of the
\* list are pairwise distinct after any sequence of Move up, Move down and
\* Add.
C30_PositionsDistinct ==
    \A i, j \in 1..Len(variantContent) :
        i # j => variantContent[i].position # variantContent[j].position

\* ------------------------------------------------------------------------
\* C27
\* ------------------------------------------------------------------------

\* C27: once a component has been cleaned up and its onMount has finished,
\* none of the listeners it registered is still registered, also when the
\* cleanup ran before a listen() call of onMount had resolved.
C27_NoListenerAfterCleanup ==
    \A comp \in Components :
        cleanedUp[comp] /\ MountDone(comp) => registered[comp] = {}

\* ------------------------------------------------------------------------
\* C25
\* ------------------------------------------------------------------------

\* C25: a submission of the record form invokes save_record only in edit
\* mode, and then once; when a save_record call has settled and its handler
\* has finished, the editor is in view mode, whether the save succeeded or
\* failed; record.id changes only when a successful save is taken.
C25_SubmitSavesOnceThenViews ==
    [][ /\ \A c \in saveCalls' :
              c.n \notin {d.n : d \in saveCalls} =>
                  edit /\ Cardinality(saveCalls') = Cardinality(saveCalls) + 1
        /\ \A c \in saveCalls :
              c.n \notin {d.n : d \in saveCalls'} => ~edit'
        /\ record'.id # record.id =>
              \E c \in saveCalls : c.resp = "ok" /\ record'.id = c.ret ]_vars

====
